---- MODULE Spec2Model ----
(***************************************************************************)
(* Model of data_fig05_barplot_cellfree.py: the Monte-Carlo run that       *)
(* estimates the NMSE of three estimators of the total uplink power of     *)
(* colliding devices in a cell-free network.                               *)
(*                                                                         *)
(* Indices are 1-based here (APs 1..L, devices 1..collisionSize), 0-based  *)
(* in the script.  Arithmetic is IEEE 754 binary64, real and complex,      *)
(* evaluated in the order numpy evaluates it; the random draws are those   *)
(* of the generator seeded at line 41.                                     *)
(***************************************************************************)
EXTENDS Integers, Sequences, FiniteSets, TLC

Min(a, b) == IF a < b THEN a ELSE b

Max(a, b) == IF a > b THEN a ELSE b

(***************************************************************************)
(* Natural numbers of any size: the digits in base 2^15, least significant *)
(* first, without high zero digits (zero is the empty sequence).           *)
(***************************************************************************)
DigitBits == 15

Base == 2^DigitBits

Digit(x, i) == IF i <= Len(x) THEN x[i] ELSE 0

RECURSIVE BTrim(_)
BTrim(x) == IF x # <<>> /\ x[Len(x)] = 0 THEN BTrim(SubSeq(x, 1, Len(x) - 1)) ELSE x

RECURSIVE BNat(_)
BNat(i) == IF i = 0 THEN <<>> ELSE <<i % Base>> \o BNat(i \div Base)

\* number of bits of a digit
IntBits(i) ==
    IF i < 256
    THEN (IF i < 16
          THEN (IF i < 4 THEN (IF i < 1 THEN 0 ELSE IF i < 2 THEN 1 ELSE 2)
                ELSE IF i < 8 THEN 3 ELSE 4)
          ELSE (IF i < 64 THEN (IF i < 32 THEN 5 ELSE 6)
                ELSE IF i < 128 THEN 7 ELSE 8))
    ELSE (IF i < 4096
          THEN (IF i < 1024 THEN (IF i < 512 THEN 9 ELSE 10)
                ELSE IF i < 2048 THEN 11 ELSE 12)
          ELSE (IF i < 16384 THEN (IF i < 8192 THEN 13 ELSE 14)
                ELSE 15))

BitLen(x) == IF x = <<>> THEN 0 ELSE (Len(x) - 1) * DigitBits + IntBits(x[Len(x)])

RECURSIVE BCmpFrom(_, _, _)
BCmpFrom(x, y, i) ==
    IF i = 0 THEN 0
    ELSE IF x[i] # y[i] THEN (IF x[i] < y[i] THEN -1 ELSE 1)
    ELSE BCmpFrom(x, y, i - 1)

BCmp(x, y) ==
    IF Len(x) # Len(y) THEN (IF Len(x) < Len(y) THEN -1 ELSE 1)
    ELSE BCmpFrom(x, y, Len(x))

RECURSIVE BAddFrom(_, _, _, _)
BAddFrom(x, y, i, c) ==
    IF i > Len(x) /\ i > Len(y) THEN (IF c = 0 THEN <<>> ELSE <<c>>)
    ELSE LET t == Digit(x, i) + Digit(y, i) + c
         IN  <<t % Base>> \o BAddFrom(x, y, i + 1, t \div Base)

BAdd(x, y) == BAddFrom(x, y, 1, 0)

\* x - y for x >= y
RECURSIVE BSubFrom(_, _, _, _)
BSubFrom(x, y, i, b) ==
    IF i > Len(x) THEN <<>>
    ELSE LET t == x[i] - Digit(y, i) - b
         IN  <<IF t < 0 THEN t + Base ELSE t>> \o BSubFrom(x, y, i + 1, IF t < 0 THEN 1 ELSE 0)

BSub(x, y) == BTrim(BSubFrom(x, y, 1, 0))

RECURSIVE BMulDigitFrom(_, _, _, _)
BMulDigitFrom(x, d, i, c) ==
    IF i > Len(x) THEN (IF c = 0 THEN <<>> ELSE <<c>>)
    ELSE LET t == x[i] * d + c
         IN  <<t % Base>> \o BMulDigitFrom(x, d, i + 1, t \div Base)

BMulDigit(x, d) == IF d = 0 THEN <<>> ELSE BMulDigitFrom(x, d, 1, 0)

\* x * Base^n
BShiftDigits(x, n) == IF x = <<>> THEN x ELSE [i \in 1..n |-> 0] \o x

RECURSIVE BMulFrom(_, _, _)
BMulFrom(x, y, i) ==
    IF i > Len(y) THEN <<>>
    ELSE BAdd(BMulDigit(x, y[i]), BShiftDigits(BMulFrom(x, y, i + 1), 1))

BMul(x, y) == IF Len(x) < Len(y) THEN BMulFrom(y, x, 1) ELSE BMulFrom(x, y, 1)

\* x * 2^n
BShl(x, n) == BShiftDigits(BMulDigit(x, 2^(n % DigitBits)), n \div DigitBits)

\* x \div 2^n
BShr(x, n) ==
    LET q == n \div DigitBits
        r == 2^(n % DigitBits)
    IN  BTrim([i \in 1..(Len(x) - q) |->
                 (x[i + q] \div r) + (Digit(x, i + q + 1) % r) * (Base \div r)])

\* x % 2^n # 0
BLowBits(x, n) ==
    \/ \E i \in 1..Min(n \div DigitBits, Len(x)) : x[i] # 0
    \/ Digit(x, (n \div DigitBits) + 1) % (2^(n % DigitBits)) # 0

BOdd(x) == x # <<>> /\ x[1] % 2 = 1

\* number of low zero bits of x # 0
RECURSIVE IntLowZeros(_)
IntLowZeros(i) == IF i % 2 = 1 THEN 0 ELSE 1 + IntLowZeros(i \div 2)

RECURSIVE BLowZerosFrom(_, _)
BLowZerosFrom(x, i) ==
    IF x[i] = 0 THEN DigitBits + BLowZerosFrom(x, i + 1) ELSE IntLowZeros(x[i])

BLowZeros(x) == BLowZerosFrom(x, 1)

(***************************************************************************)
(* Long division.  The divisor d is normalised (its high digit is at least *)
(* Base/2), so the quotient digit estimated from the two high digits of    *)
(* the running remainder is at most 2 too large.                           *)
(***************************************************************************)
\* <<q, r - q*d>> for the largest digit q <= qhat with q*d <= r
RECURSIVE BQuotDigit(_, _, _, _)
BQuotDigit(r, d, qhat, prod) ==
    IF BCmp(prod, r) > 0 THEN BQuotDigit(r, d, qhat - 1, BSub(prod, d))
    ELSE <<qhat, BSub(r, prod)>>

\* the quotient digit r \div d of a remainder r < d * Base, and r % d
BQuot(r, d) ==
    LET n == Len(d)
        top == Digit(r, n + 1) * Base + Digit(r, n)
        qhat == Min(Base - 1, top \div d[n])
    IN  IF Len(r) < n THEN <<0, r>> ELSE BQuotDigit(r, d, qhat, BMulDigit(d, qhat))

RECURSIVE BDivFrom(_, _, _, _, _)
\* the step of BDivFrom that has found the digit qr[1] and the remainder qr[2]
BDivNext(x, d, i, qr, q) == BDivFrom(x, d, i - 1, qr[2], BTrim(<<qr[1]>> \o q))

\* <<quotient, remainder>> of x by d, digits i..1 of x still to bring down,
\* r the running remainder and q the quotient so far
BDivFrom(x, d, i, r, q) ==
    IF i = 0 THEN <<q, r>>
    ELSE BDivNext(x, d, i, BQuot(BTrim(<<x[i]>> \o r), d), q)

\* <<x \div d, x % d>> for a normalised d
BDivNormal(x, d) == BDivFrom(x, d, Len(x), <<>>, <<>>)

\* the quotient and the remainder of operands shifted left by sh bits
BDivShifted(res, sh) == <<res[1], BShr(res[2], sh)>>

\* <<x \div y, x % y>>, y normalised by a shift of sh bits
BDivBy(x, y, sh) == BDivShifted(BDivNormal(BShl(x, sh), BShl(y, sh)), sh)

\* <<x \div y, x % y>> for y # 0
BDivMod(x, y) == BDivBy(x, y, (DigitBits - (BitLen(y) % DigitBits)) % DigitBits)

\* floor of the square root of an integer below 2^30
RECURSIVE IntSqrtFrom(_, _)
IntSqrtFrom(i, r) ==
    LET nxt == (r + i \div r) \div 2
    IN  IF nxt < r THEN IntSqrtFrom(i, nxt) ELSE r

IntSqrt(i) == IF i = 0 THEN 0 ELSE IntSqrtFrom(i, Base)

\* the value of a natural below 2^30
BInt(x) == Digit(x, 1) + Digit(x, 2) * Base

RECURSIVE BSqrtFrom(_, _)
\* the step of BSqrtFrom that has found the next iterate nxt
BSqrtNext(x, r, nxt) == IF BCmp(nxt, r) < 0 THEN BSqrtFrom(x, nxt) ELSE r

BSqrtFrom(x, r) == BSqrtNext(x, r, BShr(BAdd(r, BDivMod(x, r)[1]), 1))

\* the even number of low bits to drop from n bits to keep 30 or 29
BSqrtShift(n) == IF n <= 30 THEN 0 ELSE IF (n - 30) % 2 = 0 THEN n - 30 ELSE n - 29

BSqrtStart(x, sh) == BShl(BNat(IntSqrt(BInt(BShr(x, sh))) + 1), sh \div 2)

\* floor of the square root: Newton's iteration from above, started at the
\* root of the high 30 bits
BSqrt(x) == BSqrtFrom(x, BSqrtStart(x, BSqrtShift(BitLen(x))))

(***************************************************************************)
(* float64 values.  A finite value is s * m * 2^e with sign s, a natural   *)
(* m of at most 53 bits that is odd or zero, and -1074 <= e; zero has      *)
(* e = 0 and keeps its sign.  Operations round to nearest, ties to even,   *)
(* overflow to an infinity and underflow gradually, as IEEE 754 binary64.  *)
(***************************************************************************)
Precision == 53

MinExp == -1074

MaxExp == 1024

NaN == [k |-> "nan", s |-> 1, m |-> <<>>, e |-> 0]

SignedInf(s) == [k |-> "inf", s |-> s, m |-> <<>>, e |-> 0]

Inf == SignedInf(1)

SignedZero(s) == [k |-> "fin", s |-> s, m |-> <<>>, e |-> 0]

IsNaN(x) == x.k = "nan"

IsFinite(x) == x.k = "fin"

IsZero(x) == x.k = "fin" /\ x.m = <<>>

\* s * m * 2^e for m # 0 of at most 53 bits: low zero bits go to the exponent
Normal(s, m, e, z) == [k |-> "fin", s |-> s, m |-> BShr(m, z), e |-> e + z]

Canonical(s, m, e) ==
    IF BitLen(m) + e > MaxExp THEN SignedInf(s) ELSE Normal(s, m, e, BLowZeros(m))

\* the float64 nearest to s * (m + f) * 2^e, where 0 < f < 1 if sticky and
\* f = 0 otherwise; m has at least 55 bits when sticky
\* q, or q + 1 when the dropped part (the low sh bits of m, and more if
\* sticky) is above half a unit, or is half a unit and q is odd
RoundEven(q, m, sh, sticky) ==
    IF BLowBits(BShr(m, sh - 1), 1) /\ (sticky \/ BLowBits(m, sh - 1) \/ BOdd(q))
    THEN BAdd(q, <<1>>) ELSE q

Pack(s, r, ulp) == IF r = <<>> THEN SignedZero(s) ELSE Canonical(s, r, ulp)

\* the rounding to units of 2^ulp
RoundAt(s, m, e, sticky, ulp) ==
    IF ulp <= e THEN Canonical(s, m, e)
    ELSE Pack(s, RoundEven(BShr(m, ulp - e), m, ulp - e, sticky), ulp)

RoundPack(s, m, e, sticky) ==
    IF m = <<>> THEN SignedZero(s)
    ELSE RoundAt(s, m, e, sticky, Max(e + BitLen(m) - Precision, MinExp))

\* the integer i
R(i) == IF i = 0 THEN SignedZero(1)
        ELSE Canonical(IF i < 0 THEN -1 ELSE 1, BNat(IF i < 0 THEN -i ELSE i), 0)

FNeg(x) == IF IsNaN(x) THEN x ELSE [x EXCEPT !.s = -x.s]

FAbs(x) == IF IsNaN(x) THEN x ELSE [x EXCEPT !.s = 1]

\* position of the highest bit: 2^(Top(x)-1) <= |x| < 2^Top(x)
Top(x) == x.e + BitLen(x.m)

\* -1, 0, 1: |x| against |y|, both finite
CmpAbs(x, y) ==
    IF x.m = <<>> \/ y.m = <<>>
    THEN (IF x.m = y.m THEN 0 ELSE IF x.m = <<>> THEN -1 ELSE 1)
    ELSE IF Top(x) # Top(y) THEN (IF Top(x) < Top(y) THEN -1 ELSE 1)
    ELSE LET e == Min(x.e, y.e)
         IN  BCmp(BShl(x.m, x.e - e), BShl(y.m, y.e - e))

\* sx * a * 2^e - sx * b * 2^e, where c is -1, 0, 1 as a is below, at, above b
FSubAligned(sx, a, b, e, c) ==
    IF c = 0 THEN SignedZero(1)
    ELSE RoundPack(sx * c, IF c > 0 THEN BSub(a, b) ELSE BSub(b, a), e, FALSE)

\* sx * a * 2^e + sy * b * 2^e
FAddAligned(sx, a, sy, b, e) ==
    IF sx = sy THEN RoundPack(sx, BAdd(a, b), e, FALSE)
    ELSE FSubAligned(sx, a, b, e, BCmp(a, b))

FAdd(x, y) ==
    IF IsNaN(x) \/ IsNaN(y) THEN NaN
    ELSE IF x.k = "inf" /\ y.k = "inf" THEN (IF x.s = y.s THEN x ELSE NaN)
    ELSE IF x.k = "inf" THEN x
    ELSE IF y.k = "inf" THEN y
    ELSE IF IsZero(x) /\ IsZero(y) THEN SignedZero(IF x.s = y.s THEN x.s ELSE 1)
    ELSE IF IsZero(x) THEN y
    ELSE IF IsZero(y) THEN x
    ELSE IF Top(x) - Top(y) > Precision + 2 THEN x
    ELSE IF Top(y) - Top(x) > Precision + 2 THEN y
    ELSE FAddAligned(x.s, BShl(x.m, x.e - Min(x.e, y.e)),
                     y.s, BShl(y.m, y.e - Min(x.e, y.e)), Min(x.e, y.e))

FSub(x, y) == FAdd(x, FNeg(y))

FMul(x, y) ==
    IF IsNaN(x) \/ IsNaN(y) THEN NaN
    ELSE IF x.k = "inf" \/ y.k = "inf"
         THEN (IF IsZero(x) \/ IsZero(y) THEN NaN ELSE SignedInf(x.s * y.s))
    ELSE IF IsZero(x) \/ IsZero(y) THEN SignedZero(x.s * y.s)
    ELSE IF Top(x) + Top(y) < MinExp - 1 THEN SignedZero(x.s * y.s)
    ELSE IF y.m = <<1>> THEN RoundPack(x.s * y.s, x.m, x.e + y.e, FALSE)
    ELSE IF x.m = <<1>> THEN RoundPack(x.s * y.s, y.m, x.e + y.e, FALSE)
    ELSE RoundPack(x.s * y.s, BMul(x.m, y.m), x.e + y.e, FALSE)

FDivPack(s, qr, e) == RoundPack(s, qr[1], e, qr[2] # <<>>)

\* x / y from the integer quotient of x.m * 2^sh by y.m
FDivBy(x, y, sh) == FDivPack(x.s * y.s, BDivMod(BShl(x.m, sh), y.m), x.e - y.e - sh)

FDiv(x, y) ==
    IF IsNaN(x) \/ IsNaN(y) THEN NaN
    ELSE IF x.k = "inf" THEN (IF y.k = "inf" THEN NaN ELSE SignedInf(x.s * y.s))
    ELSE IF y.k = "inf" THEN SignedZero(x.s * y.s)
    ELSE IF IsZero(y) THEN (IF IsZero(x) THEN NaN ELSE SignedInf(x.s * y.s))
    ELSE IF IsZero(x) THEN SignedZero(x.s * y.s)
    ELSE IF Top(x) - Top(y) < MinExp - 2 THEN SignedZero(x.s * y.s)
    ELSE IF y.m = <<1>> THEN RoundPack(x.s * y.s, x.m, x.e - y.e, FALSE)
    ELSE FDivBy(x, y, Precision + 3 + BitLen(y.m) - BitLen(x.m))

\* sh or sh + 1, the one that leaves e - sh even
FSqrtShift(e, sh) == IF (e - sh) % 2 = 0 THEN sh ELSE sh + 1

FSqrtPack(a, r, e) == RoundPack(1, r, e, BMul(r, r) # a)

FSqrtOf(a, e) == FSqrtPack(a, BSqrt(a), e)

\* the root of x from the integer root of x.m * 2^t
FSqrtBy(x, t) == FSqrtOf(BShl(x.m, t), (x.e - t) \div 2)

FSqrt(x) ==
    IF IsNaN(x) THEN NaN
    ELSE IF IsZero(x) THEN x
    ELSE IF x.s < 0 THEN NaN
    ELSE IF x.k = "inf" THEN x
    ELSE FSqrtBy(x, FSqrtShift(x.e, 2 * (Precision + 2) - BitLen(x.m)))

FLt(x, y) ==
    IF IsNaN(x) \/ IsNaN(y) THEN FALSE
    ELSE IF x.k = "inf" \/ y.k = "inf"
         THEN (IF x.k = "inf" /\ y.k = "inf" THEN x.s < y.s
               ELSE IF x.k = "inf" THEN x.s < 0 ELSE y.s > 0)
    ELSE IF IsZero(x) /\ IsZero(y) THEN FALSE
    ELSE IF x.s # y.s THEN x.s < y.s
    ELSE IF x.s > 0 THEN CmpAbs(x, y) < 0 ELSE CmpAbs(x, y) > 0

FEq(x, y) == ~IsNaN(x) /\ ~IsNaN(y) /\ (x = y \/ (IsZero(x) /\ IsZero(y)))

FLe(x, y) == FLt(x, y) \/ FEq(x, y)
\* x**2 of an array: np.square, the product x*x
FSq(x) == FMul(x, x)

\* int(x) and np.floor(x) of a finite x >= 0 below 2^30
FInt(x) == IF x.e >= 0 THEN BInt(x.m) * 2^x.e ELSE BInt(BShr(x.m, -x.e))

\* the positive float64 m * 2^e, m odd
Dbl(m, e) == [k |-> "fin", s |-> 1, m |-> m, e |-> e]

(***************************************************************************)
(* Functions numpy takes from the C library: hypot (np.abs of a complex    *)
(* value), log, log10 and pow.  Their results are tabulated on the         *)
(* arguments the model reaches, as the library of this build returns them. *)
(* The cases the library decides without arithmetic are written out.       *)
(***************************************************************************)
Lookup(table, x) == (CHOOSE r \in table : r[1] = x)[2]

HypotTable ==
    {<<<<Dbl(<<20071, 11774, 15786, 2>>, -45), Dbl(<<4895, 11933, 32230, 28>>, -45)>>, Dbl(<<2645, 13671, 23501, 232>>, -48)>>,  \* hypot(2.4817614542436957, 28.983592656580157) = 29.089650791962715
     <<<<Dbl(<<2873, 29538, 14368, 61>>, -46), Dbl(<<29303, 20556, 22968, 29>>, -44)>>, Dbl(<<3035, 32226, 24571, 133>>, -46)>>,  \* hypot(30.719252035993932, 59.40189375894937) = 66.87493871249846
     <<<<Dbl(<<2873, 29538, 14368, 61>>, -46), Dbl(<<3465, 12211, 9799, 70>>, -44)>>, Dbl(<<2083, 26410, 31373, 71>>, -44)>>,  \* hypot(30.719252035993932, 140.59810624105063) = 143.91490514960805
     <<<<Dbl(<<26835, 2759, 12621, 18>>, -43), Dbl(<<12021, 26129, 27196, 26>>, -44)>>, Dbl(<<23539, 29952, 24873, 22>>, -43)>>,  \* hypot(73.54065969518922, 53.65996077911342) = 91.0363664653836
     <<<<Dbl(<<26835, 2759, 12621, 18>>, -43), Dbl(<<20747, 6638, 5571, 73>>, -44)>>, Dbl(<<29049, 24950, 25533, 163>>, -45)>>,  \* hypot(73.54065969518922, 146.34003922088658) = 163.77922855958948
     <<<<Dbl(<<11015, 21436, 11337, 37>>, -44), Dbl(<<5457, 30263, 31669, 179>>, -47)>>, Dbl(<<13561, 8200, 12844, 174>>, -46)>>,  \* hypot(74.6919954946938, 44.9916223416027) = 87.19598770533402
     <<<<Dbl(<<11015, 21436, 11337, 37>>, -44), Dbl(<<14677, 12131, 8123, 61>>, -43)>>, Dbl(<<26485, 24844, 2040, 128>>, -44)>>,  \* hypot(74.6919954946938, 244.9916223416027) = 256.1245579958116
     <<<<R(100), R(200)>>, Dbl(<<14115, 25373, 26325, 111>>, -44)>>,  \* hypot(100.0, 200.0) = 223.60679774997897
     <<<<Dbl(<<23243, 16729, 6338, 54>>, -44), Dbl(<<3973, 24290, 3051, 9>>, -45)>>, Dbl(<<1391, 30148, 17539, 217>>, -46)>>,  \* hypot(108.38687198182441, 9.093131752797632) = 108.76763794014344
     <<<<Dbl(<<5933, 30008, 20146, 31>>, -43), Dbl(<<12021, 26129, 27196, 26>>, -44)>>, Dbl(<<22331, 8337, 12224, 137>>, -45)>>,  \* hypot(126.45934030481078, 53.65996077911342) = 137.373054640071
     <<<<Dbl(<<5933, 30008, 20146, 31>>, -43), Dbl(<<20747, 6638, 5571, 73>>, -44)>>, Dbl(<<4073, 3711, 13430, 193>>, -45)>>,  \* hypot(126.45934030481078, 146.34003922088658) = 193.4098545304726
     <<<<Dbl(<<29947, 14880, 15703, 23>>, -42), Dbl(<<19877, 15439, 870, 55>>, -44)>>, Dbl(<<12545, 26035, 6962, 27>>, -42)>>,  \* hypot(187.83385110582344, 110.05312934444584) = 217.69990100996824
     <<<<Dbl(<<8551, 3692, 22276, 57>>, -43), Dbl(<<29303, 20556, 22968, 29>>, -44)>>, Dbl(<<5615, 17143, 7978, 238>>, -45)>>,  \* hypot(230.71925203599392, 59.40189375894937) = 238.24348520410373
     <<<<Dbl(<<8551, 3692, 22276, 57>>, -43), Dbl(<<3465, 12211, 9799, 70>>, -44)>>, Dbl(<<1523, 13118, 17888, 67>>, -43)>>,  \* hypot(230.71925203599392, 140.59810624105063) = 270.1836426185313
     <<<<Dbl(<<11015, 21436, 11337, 137>>, -44), Dbl(<<5457, 30263, 31669, 179>>, -47)>>, Dbl(<<1593, 20862, 22888, 8>>, -40)>>,  \* hypot(274.6919954946938, 44.9916223416027) = 278.3521842374985
     <<<<Dbl(<<11015, 21436, 11337, 137>>, -44), Dbl(<<14677, 12131, 8123, 61>>, -43)>>, Dbl(<<1507, 17294, 1170, 184>>, -44)>>}  \* hypot(274.6919954946938, 244.9916223416027) = 368.0714433454834

\* np.abs(x + 1j*y) for finite x and y
Hypot(x, y) ==
    IF IsZero(x) THEN FAbs(y)
    ELSE IF IsZero(y) THEN FAbs(x)
    ELSE Lookup(HypotTable, <<FAbs(x), FAbs(y)>>)

LogTable ==
    {<<Dbl(<<28859, 30428, 10162, 137>>, -63), FNeg(Dbl(<<4765, 29654, 24281, 241>>, -50))>>,  \* log(0.000523796645996131) = -7.554407029125881
     <<Dbl(<<19501, 20128, 14910, 101>>, -60), FNeg(Dbl(<<4493, 2572, 7233, 46>>, -48))>>,  \* log(0.0030961619823015986) = -5.777592004758436
     <<Dbl(<<19473, 18306, 1465, 153>>, -60), FNeg(Dbl(<<8053, 17003, 23831, 171>>, -50))>>,  \* log(0.004670554361001515) = -5.366477507493859
     <<Dbl(<<8127, 11408, 6087, 49>>, -57), FNeg(Dbl(<<14675, 11812, 24726, 70>>, -49))>>,  \* log(0.012008244903028757) = -4.422161789869881
     <<Dbl(<<16541, 333, 27229, 7>>, -54), FNeg(Dbl(<<167, 12145, 25154, 133>>, -50))>>,  \* log(0.015294850479230793) = -4.180239077221052
     <<Dbl(<<3437, 18350, 26574, 11>>, -54), FNeg(Dbl(<<23593, 21253, 10115, 60>>, -49))>>,  \* log(0.023068342208907577) = -3.7692940685502254
     <<Dbl(<<26375, 20510, 26726, 97>>, -57), FNeg(Dbl(<<3853, 11052, 643, 239>>, -51))>>,  \* log(0.023880769505650483) = -3.734681767122203
     <<Dbl(<<25081, 31501, 32265, 104>>, -57), FNeg(Dbl(<<28069, 28223, 8075, 117>>, -50))>>,  \* log(0.025631025145631932) = -3.6639517415273177
     <<Dbl(<<15015, 31724, 13053, 98>>, -56), FNeg(Dbl(<<12603, 15675, 9111, 194>>, -51))>>,  \* log(0.04804608178367663) = -3.0355946914552567
     <<Dbl(<<6039, 22215, 14771, 126>>, -56), FNeg(Dbl(<<2327, 8175, 18227, 44>>, -49))>>,  \* log(0.06174355265429053) = -2.784765719382035
     <<Dbl(<<6537, 3610, 9557, 254>>, -57), FNeg(Dbl(<<28685, 22978, 7676, 22>>, -48))>>,  \* log(0.06208292476962913) = -2.779284291304112
     <<Dbl(<<30089, 13098, 5468, 67>>, -55), FNeg(Dbl(<<25553, 12204, 11621, 174>>, -51))>>,  \* log(0.06559265851221266) = -2.7242915022183998
     <<Dbl(<<20883, 31967, 22992, 69>>, -55), FNeg(Dbl(<<4851, 14263, 12271, 5>>, -46))>>,  \* log(0.06806805657073464) = -2.6872472423818152
     <<Dbl(<<28205, 1105, 25483, 18>>, -53), FNeg(Dbl(<<14601, 22975, 19669, 83>>, -50))>>,  \* log(0.07335031434872052) = -2.6125084888028676
     <<Dbl(<<21095, 26006, 25700, 9>>, -52), FNeg(Dbl(<<12453, 24872, 4586, 41>>, -49))>>,  \* log(0.0764400467061479) = -2.5712485485931413
     <<Dbl(<<26897, 26788, 2141, 80>>, -55), FNeg(Dbl(<<395, 21646, 12747, 20>>, -48))>>,  \* log(0.07818883113652267) = -2.5486284659723815
     <<Dbl(<<13, 6873, 5203, 164>>, -56), FNeg(Dbl(<<27945, 11098, 17112, 161>>, -51))>>,  \* log(0.08015565886717031) = -2.523784798960737
     <<Dbl(<<32501, 21259, 8154, 168>>, -56), FNeg(Dbl(<<23987, 13580, 31037, 159>>, -51))>>,  \* log(0.08215276373629961) = -2.4991747925048116
     <<Dbl(<<12531, 12409, 12161, 23>>, -53), FNeg(Dbl(<<15093, 25287, 6397, 153>>, -51))>>,  \* log(0.09129349931529729) = -2.3936756952820084
     <<Dbl(<<2075, 25255, 13201, 94>>, -55), FNeg(Dbl(<<2947, 32396, 18664, 152>>, -51))>>,  \* log(0.09219031842718625) = -2.3839001601458576
     <<Dbl(<<9329, 8988, 10977, 194>>, -56), FNeg(Dbl(<<16965, 14297, 23667, 150>>, -51))>>,  \* log(0.09489013663382352) = -2.3550355130794594
     <<Dbl(<<10011, 480, 25733, 209>>, -56), FNeg(Dbl(<<1487, 6521, 14960, 36>>, -49))>>,  \* log(0.10243423304941894) = -2.2785343151216733
     <<Dbl(<<1069, 29957, 15110, 215>>, -56), FNeg(Dbl(<<30635, 22258, 1927, 72>>, -50))>>,  \* log(0.10520563891852026) = -2.2518383782279825
     <<Dbl(<<3849, 3517, 2806, 30>>, -53), FNeg(Dbl(<<7985, 7938, 1058, 137>>, -51))>>,  \* log(0.11752201406167828) = -2.141129609230028
     <<Dbl(<<2625, 21907, 23875, 241>>, -56), FNeg(Dbl(<<22027, 7742, 24753, 136>>, -51))>>,  \* log(0.11803155643568976) = -2.1368032628477116
     <<Dbl(<<24929, 23408, 29241, 3>>, -50), FNeg(Dbl(<<23191, 13245, 27186, 134>>, -51))>>,  \* log(0.12163707197063989) = -2.1067134877333262
     <<Dbl(<<16317, 21042, 21738, 127>>, -55), FNeg(Dbl(<<23115, 30486, 8282, 133>>, -51))>>,  \* log(0.12467129952210412) = -2.082074608984191
     <<Dbl(<<20491, 31696, 10492, 32>>, -53), FNeg(Dbl(<<2395, 11794, 14647, 132>>, -51))>>,  \* log(0.12625085917761802) = -2.069484405482553
     <<Dbl(<<5637, 22083, 6041, 16>>, -52), FNeg(Dbl(<<18611, 12774, 4455, 4>>, -46))>>,  \* log(0.1264404473125762) = -2.0679838538952
     <<Dbl(<<2077, 6537, 21664, 16>>, -52), FNeg(Dbl(<<16739, 23916, 16150, 130>>, -51))>>,  \* log(0.13016514766105236) = -2.0389512681360187
     <<Dbl(<<28587, 27552, 27209, 33>>, -53), FNeg(Dbl(<<12631, 25553, 4144>>, -41))>>,  \* log(0.1321499157961531) = -2.0238182751159
     <<Dbl(<<18575, 20966, 25547, 69>>, -54), FNeg(Dbl(<<17351, 18164, 18050, 127>>, -51))>>,  \* log(0.13628838299803986) = -1.99298217503426
     <<Dbl(<<11765, 15510, 23989, 70>>, -54), FNeg(Dbl(<<5087, 22229, 12006, 253>>, -52))>>,  \* log(0.13814863403669558) = -1.9794251151990847
     <<Dbl(<<15041, 8397, 9935, 143>>, -55), FNeg(Dbl(<<10485, 18909, 28068, 125>>, -51))>>,  \* log(0.13994453121036624) = -1.9665091405232666
     <<Dbl(<<29177, 4520, 14154, 73>>, -54), FNeg(Dbl(<<11385, 21482, 18729, 248>>, -52))>>,  \* log(0.14342177736560263) = -1.9419654978726426
     <<Dbl(<<22391, 19801, 17321, 148>>, -55), FNeg(Dbl(<<24675, 10962, 4222, 247>>, -52))>>,  \* log(0.14504747403560334) = -1.9306941830054931
     <<Dbl(<<26631, 7211, 22819, 153>>, -55), FNeg(Dbl(<<18843, 22526, 22536, 60>>, -50))>>,  \* log(0.15009412825367027) = -1.896492660004152
     <<Dbl(<<28797, 12595, 15518, 159>>, -55), FNeg(Dbl(<<1165, 8680, 458, 119>>, -51))>>,  \* log(0.1557359213946973) = -1.8595935177295986
     <<Dbl(<<7313, 17167, 9143, 80>>, -54), FNeg(Dbl(<<12335, 29579, 5257, 237>>, -52))>>,  \* log(0.15679499649417844) = -1.852816081688626
     <<Dbl(<<24871, 28996, 14258, 162>>, -55), FNeg(Dbl(<<31371, 17784, 27405, 117>>, -51))>>,  \* log(0.15862807288500244) = -1.8411929811257486
     <<Dbl(<<7177, 19010, 19547, 2>>, -49), FNeg(Dbl(<<7775, 3262, 24776, 232>>, -52))>>,  \* log(0.16228405026596882) = -1.8184070824517204
     <<Dbl(<<13687, 19749, 8818, 167>>, -55), FNeg(Dbl(<<7497, 8750, 16218, 14>>, -48))>>,  \* log(0.16334875234080545) = -1.811867778914607
     <<Dbl(<<19803, 17321, 18594, 42>>, -53), FNeg(Dbl(<<4761, 22234, 21075, 229>>, -52))>>,  \* log(0.16627914054553672) = -1.7940873333292642
     <<Dbl(<<15699, 24226, 12253, 49>>, -53), FNeg(Dbl(<<10747, 8235, 21514, 210>>, -52))>>,  \* log(0.19286700956028324) = -1.6457543972306883
     <<Dbl(<<14193, 11217, 9048, 99>>, -54), FNeg(Dbl(<<18739, 29138, 32336, 104>>, -51))>>,  \* log(0.19389869823031974) = -1.640419430369684
     <<Dbl(<<27133, 29478, 20757, 99>>, -54), FNeg(Dbl(<<32551, 6893, 3100, 13>>, -48))>>,  \* log(0.1945966422332786) = -1.6368263640898952
     <<Dbl(<<29403, 19004, 28700, 201>>, -55), FNeg(Dbl(<<24575, 27051, 30290, 103>>, -51))>>,  \* log(0.19714440643738027) = -1.623818791176745
     <<Dbl(<<293, 32077, 1067, 204>>, -55), FNeg(Dbl(<<2859, 31237, 8004, 103>>, -51))>>,  \* log(0.19925057825185735) = -1.6131920591737035
     <<Dbl(<<13999, 31592, 26308, 54>>, -53), FNeg(Dbl(<<485, 8747, 9949, 197>>, -52))>>,  \* log(0.21407377292208263) = -1.5414345900863904
     <<Dbl(<<20713, 30852, 21133, 109>>, -54), FNeg(Dbl(<<27691, 594, 20609, 98>>, -51))>>,  \* log(0.2141503060786492) = -1.5410771456495431
     <<Dbl(<<6113, 19967, 25451, 13>>, -51), FNeg(Dbl(<<27497, 3637, 19515, 196>>, -52))>>,  \* log(0.21526127307423382) = -1.5359027650399304
     <<Dbl(<<3673, 17245, 25102, 112>>, -54), FNeg(Dbl(<<7335, 10000, 21796, 193>>, -52))>>,  \* log(0.220246227161828) = -1.5130091441113025
     <<Dbl(<<2531, 22782, 4545, 227>>, -55), FNeg(Dbl(<<22821, 30587, 24791, 192>>, -52))>>,  \* log(0.22181515977543062) = -1.5059108575492897
     <<Dbl(<<29629, 10238, 29888, 59>>, -53), FNeg(Dbl(<<11075, 16369, 15517, 46>>, -50))>>,  \* log(0.23403171449501026) = -1.452298640778113
     <<Dbl(<<11765, 2276, 106, 30>>, -52), FNeg(Dbl(<<26655, 26586, 27734, 92>>, -51))>>,  \* log(0.23440028893207665) = -1.450724988634661
     <<Dbl(<<23035, 27358, 1868, 125>>, -54), FNeg(Dbl(<<25391, 17300, 6930, 90>>, -51))>>,  \* log(0.24425201624163123) = -1.409554733265757
     <<Dbl(<<30049, 2434, 31485, 15>>, -51), FNeg(Dbl(<<5971, 31696, 24879, 177>>, -52))>>,  \* log(0.2493882533587315) = -1.3887443464495461
     <<Dbl(<<26699, 21270, 1220, 16>>, -51), FNeg(Dbl(<<13163, 18576, 17559, 5>>, -47))>>,  \* log(0.25058205086410146) = -1.383968863729784
     <<Dbl(<<16527, 24528, 5242, 130>>, -54), FNeg(Dbl(<<25241, 26067, 9951, 175>>, -52))>>,  \* log(0.2542187421650021) = -1.3695601929486314
     <<Dbl(<<9117, 13610, 14823, 132>>, -54), FNeg(Dbl(<<32131, 19032, 20762, 21>>, -49))>>,  \* log(0.2586960444064575) = -1.3521014801797318
     <<Dbl(<<8523, 2954, 25160, 16>>, -51), FNeg(Dbl(<<20449, 24319, 14611, 171>>, -52))>>,  \* log(0.2619972658905332) = -1.3394212108078067
     <<Dbl(<<27383, 17314, 24869, 135>>, -54), FNeg(Dbl(<<26813, 5593, 31339, 84>>, -51))>>,  \* log(0.2651542144064218) = -1.327443681101697
     <<Dbl(<<29043, 6417, 16426, 34>>, -52), FNeg(Dbl(<<6697, 17616, 26617, 167>>, -52))>>,  \* log(0.2695413102765911) = -1.3110336154947027
     <<Dbl(<<19897, 3685, 7088, 138>>, -54), FNeg(Dbl(<<27025, 24693, 20204, 167>>, -52))>>,  \* log(0.2699537344262484) = -1.30950468864339
     <<Dbl(<<12221, 32731, 4582, 69>>, -53), FNeg(Dbl(<<10333, 29402, 18280, 167>>, -52))>>,  \* log(0.2700775860407628) = -1.3090460055559767
     <<Dbl(<<32453, 21844, 13391, 69>>, -53), FNeg(Dbl(<<20657, 28056, 2004, 167>>, -52))>>,  \* log(0.2711276610679866) = -1.3051654949713731
     <<Dbl(<<23735, 3082, 29311, 139>>, -54), FNeg(Dbl(<<23601, 18669, 1176, 83>>, -51))>>,  \* log(0.2732314523504544) = -1.2974360321782332
     <<Dbl(<<10737, 20414, 18762, 143>>, -54), FNeg(Dbl(<<14619, 30515, 12286, 81>>, -51))>>,  \* log(0.2804152144787216) = -1.271483865383869
     <<Dbl(<<30427, 29828, 11810, 73>>, -53), FNeg(Dbl(<<18643, 2593, 32333, 79>>, -51))>>,  \* log(0.28656422022660466) = -1.249792613577577
     <<Dbl(<<25473, 27345, 31854, 146>>, -54), FNeg(Dbl(<<3065, 25569, 24721, 159>>, -52))>>,  \* log(0.28705494609635457) = -1.2480816317336105
     <<Dbl(<<6305, 24605, 22835, 147>>, -54), FNeg(Dbl(<<31221, 11830, 4089, 159>>, -52))>>,  \* log(0.2884704918200303) = -1.2431624796514573
     <<Dbl(<<20561, 13733, 25376, 18>>, -51), FNeg(Dbl(<<13695, 1672, 29673, 4>>, -47))>>,  \* log(0.29335041957714525) = -1.2263874133159263
     <<Dbl(<<11761, 28183, 7365, 75>>, -53), FNeg(Dbl(<<15, 81, 12471, 78>>, -51))>>,  \* log(0.29384682894800396) = -1.224696637378663
     <<Dbl(<<9033, 11821, 24281, 151>>, -54), FNeg(Dbl(<<29781, 16483, 21860, 155>>, -52))>>,  \* log(0.29636915688256643) = -1.2161494500753822
     <<Dbl(<<17281, 1936, 2944, 19>>, -51), FNeg(Dbl(<<30937, 27827, 27688, 154>>, -52))>>,  \* log(0.2982788367739322) = -1.209726536093106
     <<Dbl(<<19477, 20449, 24563, 76>>, -53), FNeg(Dbl(<<17335, 2376, 3154, 77>>, -51))>>,  \* log(0.29980321217442685) = -1.2046289789800215
     <<Dbl(<<517, 10864, 20259, 40>>, -52), FNeg(Dbl(<<2267, 2549, 15073, 73>>, -51))>>,  \* log(0.31733020104013687) = -1.1478124035794344
     <<Dbl(<<1541, 8821, 15698, 81>>, -53), FNeg(Dbl(<<16313, 18023, 20794, 36>>, -50))>>,  \* log(0.3182776295181503) = -1.1448312282881767
     <<Dbl(<<19569, 6786, 23939, 81>>, -53), FNeg(Dbl(<<5659, 16351, 8781, 18>>, -49))>>,  \* log(0.31926002587205293) = -1.1417493801082426
     <<Dbl(<<26219, 22266, 9619, 164>>, -54), FNeg(Dbl(<<31107, 14409, 16178, 145>>, -52))>>,  \* log(0.320885877581168) = -1.1366697406188855
     <<Dbl(<<6535, 26890, 10733, 164>>, -54), FNeg(Dbl(<<17475, 20560, 12019, 36>>, -50))>>,  \* log(0.3209522855653621) = -1.1364628099991618
     <<Dbl(<<31837, 26413, 5927, 165>>, -54), FNeg(Dbl(<<24595, 19510, 6588, 36>>, -50))>>,  \* log(0.32261894977631816) = -1.1312833742340613
     <<Dbl(<<22293, 7624, 16600, 170>>, -54), FNeg(Dbl(<<16023, 19274, 24329, 140>>, -52))>>,  \* log(0.3330207009724842) = -1.0995506258513268
     <<Dbl(<<31681, 13605, 8478, 171>>, -54), FNeg(Dbl(<<27393, 9400, 5868, 140>>, -52))>>,  \* log(0.33448972792751525) = -1.095149108622252
     <<Dbl(<<23213, 7866, 4069, 172>>, -54), FNeg(Dbl(<<2815, 1229, 25131, 69>>, -51))>>,  \* log(0.3361800456090503) = -1.0901084125083567
     <<Dbl(<<18343, 634, 6804, 86>>, -53), FNeg(Dbl(<<31779, 17932, 10406, 139>>, -52))>>,  \* log(0.33674860231461856) = -1.0884186142136592
     <<Dbl(<<32609, 24596, 20676, 86>>, -53), FNeg(Dbl(<<9519, 29725, 22626, 138>>, -52))>>,  \* log(0.338402360754099) = -1.0835196750507057
     <<Dbl(<<2521, 4586, 24102, 174>>, -54), FNeg(Dbl(<<25655, 23276, 19874, 137>>, -52))>>,  \* log(0.3412803494904018) = -1.0750510002019504
     <<Dbl(<<2797, 22304, 442, 178>>, -54), FNeg(Dbl(<<14961, 2226, 20112, 67>>, -51))>>,  \* log(0.34768263582388564) = -1.0564651813249886
     <<Dbl(<<7431, 4934, 21659, 44>>, -52), FNeg(Dbl(<<8305, 6703, 17251>>, -44))>>,  \* log(0.3489139439059856) = -1.0529299662512699
     <<Dbl(<<22157, 23385, 4457, 185>>, -54), FNeg(Dbl(<<23699, 24363, 3373, 65>>, -51))>>,  \* log(0.3615938254400611) = -1.0172337262734543
     <<Dbl(<<10047, 3062, 11740, 23>>, -51), FNeg(Dbl(<<7315, 16603, 499, 129>>, -52))>>,  \* log(0.3649731127997309) = -1.0079315916753202
     <<Dbl(<<23167, 24271, 16552, 47>>, -52), FNeg(Dbl(<<10757, 12253, 24418, 253>>, -53))>>,  \* log(0.3711339809212004) = -0.9911921470095996
     <<Dbl(<<5529, 30067, 22886, 95>>, -53), FNeg(Dbl(<<4965, 29253, 15964, 31>>, -50))>>,  \* log(0.3738220831843818) = -0.9839753081658715
     <<Dbl(<<14633, 29812, 1301, 195>>, -54), FNeg(Dbl(<<399, 4714, 25158, 61>>, -51))>>,  \* log(0.3809369748713772) = -0.9651213378239798
     <<Dbl(<<13477, 11957, 28133, 200>>, -54), FNeg(Dbl(<<7665, 25383, 17866, 239>>, -53))>>,  \* log(0.3923018792218705) = -0.9357236355107813
     <<Dbl(<<12191, 5122, 16335, 101>>, -53), FNeg(Dbl(<<28077, 9968, 26284, 14>>, -49))>>,  \* log(0.39647855237989293) = -0.9251333317286825
     <<Dbl(<<10163, 11613, 28477, 207>>, -54), FNeg(Dbl(<<22219, 22215, 24987, 230>>, -53))>>,  \* log(0.4059942575937569) = -0.9014162633381714
     <<Dbl(<<17449, 27691, 19353, 105>>, -53), FNeg(Dbl(<<21215, 17950, 23448, 226>>, -53))>>,  \* log(0.41246340812188464) = -0.8856077847254616
     <<Dbl(<<8549, 10733, 2708, 53>>, -52), FNeg(Dbl(<<17029, 15043, 10863, 56>>, -51))>>,  \* log(0.41470821560695836) = -0.8801801009615837
     <<Dbl(<<25359, 19780, 5716, 107>>, -53), FNeg(Dbl(<<8739, 18307, 29628, 222>>, -53))>>,  \* log(0.4186502222611085) = -0.8707194994322588
     <<Dbl(<<21721, 14907, 10519, 218>>, -54), FNeg(Dbl(<<32175, 23950, 3336, 109>>, -52))>>,  \* log(0.42640825837527313) = -0.852358038646212
     <<Dbl(<<315, 6220, 27550, 113>>, -53), FNeg(Dbl(<<30111, 17318, 23862, 103>>, -52))>>,  \* log(0.4446904885553872) = -0.8103767701462414
     <<Dbl(<<13803, 79, 9467, 228>>, -54), FNeg(Dbl(<<5233, 1619, 30258, 12>>, -49))>>,  \* log(0.445876777316555) = -0.8077126491791393
     <<Dbl(<<31367, 18780, 25269, 228>>, -54), FNeg(Dbl(<<13683, 22112, 18302, 51>>, -51))>>,  \* log(0.44681868393119156) = -0.8056023954474596
     <<Dbl(<<9823, 10991, 5259, 115>>, -53), FNeg(Dbl(<<21931, 19190, 18455, 25>>, -50))>>,  \* log(0.4498457116398632) = -0.7988506180312624
     <<Dbl(<<14915, 10309, 23982, 115>>, -53), FNeg(Dbl(<<29981, 23176, 7822, 203>>, -53))>>,  \* log(0.45207766468758626) = -0.7939012893799916
     <<Dbl(<<21271, 3427, 19363, 233>>, -54), FNeg(Dbl(<<27057, 17171, 29387, 200>>, -53))>>,  \* log(0.45623225597164335) = -0.7847532658627668
     <<Dbl(<<12423, 23590, 25781, 117>>, -53), FNeg(Dbl(<<11983, 1655, 24023, 198>>, -53))>>,  \* log(0.460104670515208) = -0.7763012707850637
     <<Dbl(<<18083, 13360, 7115, 118>>, -53), FNeg(Dbl(<<14227, 577, 29483, 98>>, -52))>>,  \* log(0.4617857227005583) = -0.7726542991690379
     <<Dbl(<<13, 11493, 16435, 61>>, -52), FNeg(Dbl(<<30725, 17377, 30535, 2>>, -47))>>,  \* log(0.4804809929701179) = -0.7329676081281278
     <<Dbl(<<73, 19974, 18590, 123>>, -53), FNeg(Dbl(<<16857, 77, 15340, 186>>, -53))>>,  \* log(0.4826849233577458) = -0.7283911707837049
     <<Dbl(<<10319, 19731, 29798, 61>>, -52), FNeg(Dbl(<<22937, 2524, 31057, 185>>, -53))>>,  \* log(0.4836670403842793) = -0.7263585420903836
     <<Dbl(<<6761, 11214, 19156, 126>>, -53), FNeg(Dbl(<<6317, 32635, 17580, 22>>, -50))>>,  \* log(0.49447111394767973) = -0.7042665442915395
     <<Dbl(<<9789, 20191, 985, 254>>, -54), FNeg(Dbl(<<3927, 232, 13868, 179>>, -53))>>,  \* log(0.4961524973028622) = -0.7008719452719373
     <<Dbl(<<22013, 779, 13923, 127>>, -53), FNeg(Dbl(<<8179, 28221, 19610, 178>>, -53))>>,  \* log(0.49775350377484495) = -0.6976502968363988
     <<Dbl(<<23277, 3593, 633, 128>>, -53), FNeg(Dbl(<<1511, 15239, 11526, 44>>, -51))>>,  \* log(0.5000754725541278) = -0.6929962468427564
     <<Dbl(<<24853, 14252, 7041, 64>>, -52), FNeg(Dbl(<<10875, 11107, 1203, 11>>, -49))>>,  \* log(0.5016788089179205) = -0.6897951869370811
     <<Dbl(<<3967, 30538, 7862, 129>>, -53), FNeg(Dbl(<<127, 19583, 16018, 87>>, -52))>>,  \* log(0.5048435845314855) = -0.683506631285155
     <<Dbl(<<2061, 8736, 4755, 130>>, -53), FNeg(Dbl(<<31841, 18888, 13507, 5>>, -48))>>,  \* log(0.5083793719534256) = -0.6765273149325175
     <<Dbl(<<5941, 30914, 4429, 8>>, -49), FNeg(Dbl(<<24385, 4051, 18935, 86>>, -52))>>,  \* log(0.5084494465369094) = -0.6763894852756069
     <<Dbl(<<16191, 26819, 26012, 130>>, -53), FNeg(Dbl(<<21371, 8127, 24408, 10>>, -49))>>,  \* log(0.5109134696085461) = -0.6715550385213103
     <<Dbl(<<13387, 2692, 22327, 65>>, -52), FNeg(Dbl(<<12445, 13087, 11066, 5>>, -48))>>,  \* log(0.513135691205451) = -0.6672149635129365
     <<Dbl(<<25045, 30722, 22087, 131>>, -53), FNeg(Dbl(<<12499, 2102, 6587, 170>>, -53))>>,  \* log(0.5143518373470736) = -0.6648477392386901
     <<Dbl(<<23783, 6110, 16261, 66>>, -52), FNeg(Dbl(<<12865, 27904, 21314, 167>>, -53))>>,  \* log(0.5195019689761524) = -0.6548846783130743
     <<Dbl(<<13057, 13072, 24900, 66>>, -52), FNeg(Dbl(<<6193, 585, 20889, 166>>, -53))>>,  \* log(0.5215617177338461) = -0.6509276649783314
     <<Dbl(<<16375, 10521, 11560, 68>>, -52), FNeg(Dbl(<<22073, 3131, 19695, 160>>, -53))>>,  \* log(0.5340061953284001) = -0.6273478383506649
     <<Dbl(<<8503, 16492, 32144, 137>>, -53), FNeg(Dbl(<<10775, 29561, 7332, 158>>, -53))>>,  \* log(0.5389881734018108) = -0.6180616500544741
     <<Dbl(<<24387, 6627, 22959, 138>>, -53), FNeg(Dbl(<<15723, 15805, 14614, 78>>, -52))>>,  \* log(0.5417994501903894) = -0.6128593641149915
     <<Dbl(<<8819, 13551, 308, 35>>, -51), FNeg(Dbl(<<24595, 19651, 27070, 4>>, -48))>>,  \* log(0.5470220630416462) = -0.603266142745337
     <<Dbl(<<24565, 2158, 14467, 4>>, -48), FNeg(Dbl(<<31439, 29218, 21651, 37>>, -51))>>,  \* log(0.5551874766533338) = -0.5884494265040767
     <<Dbl(<<17251, 14494, 30425, 142>>, -53), FNeg(Dbl(<<24761, 13837, 6724, 149>>, -53))>>,  \* log(0.5583144953653626) = -0.5828328636044012
     <<Dbl(<<3141, 1210, 30729, 8>>, -49), FNeg(Dbl(<<18599, 28181, 2270, 149>>, -53))>>,  \* log(0.5586109865745446) = -0.5823019576112259
     <<Dbl(<<2123, 26320, 21755, 71>>, -52), FNeg(Dbl(<<23565, 6715, 8043, 74>>, -52))>>,  \* log(0.5598744876920303) = -0.5800426494950017
     <<Dbl(<<16165, 21914, 25508, 145>>, -53), FNeg(Dbl(<<30139, 27974, 4943, 144>>, -53))>>,  \* log(0.5694471202823236) = -0.5630893532904148
     <<Dbl(<<21741, 24568, 29332, 145>>, -53), FNeg(Dbl(<<4971, 3687, 30999, 143>>, -53))>>,  \* log(0.5699029862613806) = -0.5622891321805644
     <<Dbl(<<11259, 4969, 10074, 146>>, -53), FNeg(Dbl(<<31819, 26302, 7327, 143>>, -53))>>,  \* log(0.5715134324613013) = -0.5594672921541898
     <<Dbl(<<24107, 19146, 13232, 73>>, -52), FNeg(Dbl(<<18067, 22876, 11464, 142>>, -53))>>,  \* log(0.5734673939495092) = -0.5560541985198192
     <<Dbl(<<31813, 13934, 26585, 147>>, -53), FNeg(Dbl(<<1047, 16553, 4961, 35>>, -51))>>,  \* log(0.5773879796578362) = -0.5492408300201634
     <<Dbl(<<16379, 31483, 30973, 73>>, -52), FNeg(Dbl(<<27609, 23518, 15353, 140>>, -53))>>,  \* log(0.5776972677231231) = -0.5487053057835239
     <<Dbl(<<19235, 30033, 31010, 148>>, -53), FNeg(Dbl(<<11917, 21029, 10605, 69>>, -52))>>,  \* log(0.5818217893305228) = -0.5415910820401308
     <<Dbl(<<29191, 3818, 32657, 74>>, -52), FNeg(Dbl(<<26149, 24983, 6998, 34>>, -51))>>,  \* log(0.5859110633238076) = -0.5345872699952161
     <<Dbl(<<23599, 32724, 11514, 150>>, -53), FNeg(Dbl(<<28103, 6714, 16883, 8>>, -49))>>,  \* log(0.5873101948117262) = -0.5322021578239298
     <<Dbl(<<17031, 10751, 9431, 75>>, -52), FNeg(Dbl(<<16817, 24189, 32203, 16>>, -50))>>,  \* log(0.5881861038471088) = -0.5307118780187219
     <<Dbl(<<28073, 15718, 23721, 37>>, -51), FNeg(Dbl(<<21947, 24493, 27186, 33>>, -51))>>,  \* log(0.5894362829692068) = -0.5285886514127163
     <<Dbl(<<28967, 23630, 16508, 151>>, -53), FNeg(Dbl(<<16753, 6336, 4736, 67>>, -52))>>,  \* log(0.5918117429205595) = -0.5245666964948124
     <<Dbl(<<10265, 17061, 15552, 38>>, -51), FNeg(Dbl(<<4541, 19541, 8989, 130>>, -53))>>,  \* log(0.6011660197591593) = -0.50888414339402
     <<Dbl(<<3181, 25558, 10572, 154>>, -53), FNeg(Dbl(<<9487, 27255, 18669, 129>>, -53))>>,  \* log(0.6028228735889464) = -0.5061318673807892
     <<Dbl(<<4435, 8274, 26604, 154>>, -53), FNeg(Dbl(<<1803, 24150, 3110, 16>>, -50))>>,  \* log(0.604733974040338) = -0.5029666299831304
     <<Dbl(<<17641, 2383, 22223, 9>>, -49), FNeg(Dbl(<<28441, 23107, 11380, 64>>, -52))>>,  \* log(0.6048871474071849) = -0.5027133715620435
     <<Dbl(<<8649, 11800, 15064, 77>>, -52), FNeg(Dbl(<<16573, 25902, 19059, 128>>, -53))>>,  \* log(0.6051541233338062) = -0.5022721040823154
     <<Dbl(<<28977, 1164, 13922, 2>>, -47), FNeg(Dbl(<<2985, 10176, 4343, 128>>, -53))>>,  \* log(0.6062167018848257) = -0.5005177629649228
     <<Dbl(<<13735, 29856, 10992, 39>>, -51), FNeg(Dbl(<<11049, 27521, 4993, 31>>, -51))>>,  \* log(0.6146168285110494) = -0.48675624841907394
     <<Dbl(<<10437, 23885, 13854, 157>>, -53), FNeg(Dbl(<<20011, 2439, 15663, 124>>, -53))>>,  \* log(0.6149328623917191) = -0.48624218397748586
     <<Dbl(<<20431, 18769, 3981, 159>>, -53), FNeg(Dbl(<<8493, 22101, 7087, 15>>, -50))>>,  \* log(0.6215683904651942) = -0.4755093331116713
     <<Dbl(<<28553, 16522, 31510, 9>>, -49), FNeg(Dbl(<<21803, 775, 10002, 121>>, -53))>>,  \* log(0.6226015171776158) = -0.4738485841359411
     <<Dbl(<<13769, 23724, 16981, 159>>, -53), FNeg(Dbl(<<5643, 22826, 6088, 242>>, -54))>>,  \* log(0.6231181292547997) = -0.47301916459795795
     <<Dbl(<<27993, 24395, 2367, 20>>, -50), FNeg(Dbl(<<5917, 12541, 26063, 238>>, -54))>>,  \* log(0.6272580571197404) = -0.4663972486690556
     <<Dbl(<<17337, 5057, 11833, 80>>, -52), FNeg(Dbl(<<32095, 20819, 11006, 238>>, -54))>>,  \* log(0.627821243844876) = -0.46549979659171997
     <<Dbl(<<19561, 9252, 27826, 160>>, -53), FNeg(Dbl(<<26377, 25247, 30527, 237>>, -54))>>,  \* log(0.6283171513517917) = -0.46471022191654804
     <<Dbl(<<14703, 17116, 29946, 161>>, -53), FNeg(Dbl(<<18531, 12135, 9072, 117>>, -53))>>,  \* log(0.6324761536541653) = -0.45811276082373487
     <<Dbl(<<12283, 2047, 14197, 162>>, -53), FNeg(Dbl(<<12543, 8947, 29951, 232>>, -54))>>,  \* log(0.6345049217320587) = -0.4549102349908622
     <<Dbl(<<18409, 24947, 12957, 81>>, -52), FNeg(Dbl(<<11335, 8855, 29295, 115>>, -53))>>,  \* log(0.6359018710468212) = -0.4527110183529509
     <<Dbl(<<5247, 30739, 30475, 162>>, -53), FNeg(Dbl(<<11425, 17240, 11485, 231>>, -54))>>,  \* log(0.6364455149274731) = -0.4518564657052569
     <<Dbl(<<29209, 20022, 12145, 20>>, -50), FNeg(Dbl(<<1405, 27044, 7862, 231>>, -54))>>,  \* log(0.6365829573155901) = -0.45164053591005154
     <<Dbl(<<761, 31706, 26542, 164>>, -53), FNeg(Dbl(<<27615, 7774, 15617, 225>>, -54))>>,  \* log(0.6437891683090974) = -0.44038398487981384
     <<Dbl(<<2837, 15025, 18858, 41>>, -51), FNeg(Dbl(<<5881, 29873, 28255, 220>>, -54))>>,  \* log(0.6496174137731807) = -0.4313716835771256
     <<Dbl(<<20561, 66, 13874, 84>>, -52), FNeg(Dbl(<<28955, 11526, 2852, 213>>, -54))>>,  \* log(0.6595578198512337) = -0.4161856384141786
     <<Dbl(<<20119, 32705, 18923, 85>>, -52), FNeg(Dbl(<<16495, 2189, 17491, 51>>, -52))>>,  \* log(0.668574332737) = -0.4026076952977993
     <<Dbl(<<11657, 28453, 19456, 85>>, -52), FNeg(Dbl(<<1693, 15450, 1240, 206>>, -54))>>,  \* log(0.6687013789004104) = -0.40241768786300175
     <<Dbl(<<14421, 29970, 20009, 171>>, -53), FNeg(Dbl(<<2331, 21405, 25361, 204>>, -54))>>,  \* log(0.6703541177064475) = -0.39994917233174626
     <<Dbl(<<27863, 12955, 28070, 171>>, -53), FNeg(Dbl(<<20757, 7308, 665, 102>>, -53))>>,  \* log(0.6713150018907993) = -0.3985168007662049
     <<Dbl(<<1231, 14168, 2278, 172>>, -53), FNeg(Dbl(<<24885, 1773, 23048, 101>>, -53))>>,  \* log(0.6721466103046171) = -0.3972787921584656
     <<Dbl(<<23145, 27751, 9749, 86>>, -52), FNeg(Dbl(<<18255, 14866, 7558, 25>>, -51))>>,  \* log(0.6741995446479001) = -0.39422915157857785
     <<Dbl(<<3717, 23560, 30039, 172>>, -53), FNeg(Dbl(<<1879, 31007, 29229, 200>>, -54))>>,  \* log(0.6754560135600093) = -0.39236724056364863
     <<Dbl(<<12581, 6834, 2767>>, -42), FNeg(Dbl(<<18329, 6810, 25951, 200>>, -54))>>,  \* log(0.6755880295033876) = -0.39217181252490146
     <<Dbl(<<24629, 4604, 30027, 10>>, -49), FNeg(Dbl(<<27349, 32728, 24614, 195>>, -54))>>,  \* log(0.6822722254292817) = -0.38232654325990484
     <<Dbl(<<29755, 32097, 15842, 87>>, -52), FNeg(Dbl(<<21625, 32008, 23404, 48>>, -52))>>,  \* log(0.6834647606731454) = -0.380580181318946
     <<Dbl(<<31309, 20910, 28557, 21>>, -50), FNeg(Dbl(<<21427, 26226, 27594, 194>>, -54))>>,  \* log(0.6834846860425161) = -0.38055102827393766
     <<Dbl(<<26921, 32328, 16373, 87>>, -52), FNeg(Dbl(<<14447, 7518, 12488, 97>>, -53))>>,  \* log(0.6835913626187653) = -0.38039496295983877
     <<Dbl(<<12833, 2964, 1147, 44>>, -51), FNeg(Dbl(<<12251, 9184, 14282, 191>>, -54))>>,  \* log(0.6880469753580347) = -0.3738981652429609
     <<Dbl(<<77, 3962, 7619, 177>>, -53), FNeg(Dbl(<<10511, 9914, 4424, 94>>, -53))>>,  \* log(0.692314519990768) = -0.3677149179650615
     <<Dbl(<<24123, 2303, 5846, 11>>, -49), FNeg(Dbl(<<2751, 71, 29537, 45>>, -52))>>,  \* log(0.698650494202516) = -0.3586046700881267
     <<Dbl(<<28571, 29188, 20675, 22>>, -50), FNeg(Dbl(<<19859, 25731, 11963, 177>>, -54))>>,  \* log(0.7072180659996787) = -0.34641622217096674
     <<Dbl(<<21111, 22424, 5305, 91>>, -52), FNeg(Dbl(<<8431, 18461, 14493, 43>>, -52))>>,  \* log(0.7122024737228949) = -0.3393930347902445
     <<Dbl(<<26243, 8277, 23173, 5>>, -48), FNeg(Dbl(<<10563, 7348, 7453, 43>>, -52))>>,  \* log(0.7133989433991808) = -0.33771448713612595
     <<Dbl(<<16219, 26272, 2152, 183>>, -53), FNeg(Dbl(<<13791, 26629, 30229, 42>>, -52))>>,  \* log(0.7151003839698932) = -0.33533234898219866
     <<Dbl(<<26249, 22225, 32551, 91>>, -52), FNeg(Dbl(<<23603, 1095, 3948, 169>>, -54))>>,  \* log(0.7186984248823214) = -0.33031344613067687
     <<Dbl(<<10163, 27468, 10783, 92>>, -52), FNeg(Dbl(<<16687, 6497, 26669, 41>>, -52))>>,  \* log(0.7213210673967125) = -0.32667093236166145
     <<Dbl(<<17399, 5655, 24381, 184>>, -53), FNeg(Dbl(<<6913, 21387, 573, 167>>, -54))>>,  \* log(0.7216564622632394) = -0.3262060673645664
     <<Dbl(<<14643, 13547, 29125, 92>>, -52), FNeg(Dbl(<<3077, 18110, 8521, 10>>, -50))>>,  \* log(0.7256940396869822) = -0.32062678592320015
     <<Dbl(<<25081, 29959, 4831, 186>>, -53), FNeg(Dbl(<<8603, 25467, 18723, 81>>, -53))>>,  \* log(0.7271385090708115) = -0.3186382981776207
     <<Dbl(<<16429, 31930, 24425, 46>>, -51), FNeg(Dbl(<<24813, 23963, 1747, 10>>, -50))>>,  \* log(0.7303972122390605) = -0.3141667664678893
     <<Dbl(<<4615, 21377, 13792, 188>>, -53), FNeg(Dbl(<<10495, 14451, 15196, 78>>, -53))>>,  \* log(0.7360192122910697) = -0.3064990569376106
     <<Dbl(<<29603, 28587, 30529, 188>>, -53), FNeg(Dbl(<<7331, 24686, 14505, 19>>, -51))>>,  \* log(0.7380144444028826) = -0.3037918822115713
     <<Dbl(<<19711, 22025, 26580, 11>>, -49), FNeg(Dbl(<<19477, 32085, 23161, 77>>, -53))>>,  \* log(0.7381986087189016) = -0.30354237308199805
     <<Dbl(<<26155, 25182, 20532, 189>>, -53), FNeg(Dbl(<<31057, 22095, 13612, 38>>, -52))>>,  \* log(0.7407289467475427) = -0.30012051446791
     <<Dbl(<<5697, 12766, 24698, 189>>, -53), FNeg(Dbl(<<30391, 3593, 10439, 153>>, -54))>>,  \* log(0.7412255274763951) = -0.29945034442412627
     <<Dbl(<<32443, 7475, 365, 190>>, -53), FNeg(Dbl(<<15771, 30161, 2557, 19>>, -51))>>,  \* log(0.7422310385881795) = -0.2980947115208443
     <<Dbl(<<579, 13974, 26838, 23>>, -50), FNeg(Dbl(<<8013, 4406, 5513, 151>>, -54))>>,  \* log(0.744345118001152) = -0.29525048342155885
     <<Dbl(<<30481, 13886, 27641, 190>>, -53), FNeg(Dbl(<<30269, 899, 12662, 150>>, -54))>>,  \* log(0.7454826144928309) = -0.29372346564909774
     <<Dbl(<<29609, 8012, 25030, 95>>, -52), FNeg(Dbl(<<1719, 25692, 4539, 37>>, -52))>>,  \* log(0.748155175336459) = -0.2901448688648267
     <<Dbl(<<3473, 13408, 522, 48>>, -51), FNeg(Dbl(<<22587, 27178, 4036, 147>>, -54))>>,  \* log(0.7502491041102037) = -0.2873499887840613
     <<Dbl(<<18041, 30007, 1438, 96>>, -52), FNeg(Dbl(<<17691, 26414, 1935, 147>>, -54))>>,  \* log(0.7503430642504141) = -0.28722475803540853
     <<Dbl(<<22897, 27882, 10293, 193>>, -53), FNeg(Dbl(<<13899, 28333, 26239, 143>>, -54))>>,  \* log(0.7551333726540134) = -0.2808608928124598
     <<Dbl(<<10927, 27845, 22158, 96>>, -52), FNeg(Dbl(<<14203, 16634, 30304, 35>>, -52))>>,  \* log(0.7552830814771985) = -0.2806626576525264
     <<Dbl(<<31367, 4337, 16598, 193>>, -53), FNeg(Dbl(<<21865, 16942, 21159, 71>>, -53))>>,  \* log(0.7558849015693604) = -0.27986616099466943
     <<Dbl(<<29399, 28162, 24452, 194>>, -53), FNeg(Dbl(<<11889, 32350, 356, 70>>, -53))>>,  \* log(0.7607275080041188) = -0.27348005619701443
     <<Dbl(<<1161, 9894, 851, 195>>, -53), FNeg(Dbl(<<2041, 3867, 9400, 139>>, -54))>>,  \* log(0.7618202330996989) = -0.272044665695034
     <<Dbl(<<5005, 8859, 30717, 97>>, -52), FNeg(Dbl(<<2539, 24121, 17419, 68>>, -53))>>,  \* log(0.7651360679530825) = -0.26770159436665375
     <<Dbl(<<4997, 5162, 3929, 49>>, -51), FNeg(Dbl(<<16501, 16346, 15884, 135>>, -54))>>,  \* log(0.7674985683137856) = -0.2646186649117291
     <<Dbl(<<30277, 5560, 24486, 197>>, -53), FNeg(Dbl(<<7675, 23155, 1573, 33>>, -52))>>,  \* log(0.772450228894464) = -0.2581877009014295
     <<Dbl(<<5643, 15435, 31216, 98>>, -52), FNeg(Dbl(<<17647, 16158, 25659, 131>>, -54))>>,  \* log(0.7730675866708931) = -0.25738879997250214
     <<Dbl(<<645, 3664, 8896, 100>>, -52), FNeg(Dbl(<<23819, 15525, 138, 125>>, -54))>>,  \* log(0.7833709983389394) = -0.24414887868211171
     <<Dbl(<<3441, 24556, 11783, 101>>, -52), FNeg(Dbl(<<22007, 9786, 31329, 238>>, -55))>>,  \* log(0.7918719647867329) = -0.23335556085901007
     <<Dbl(<<24805, 13674, 31599, 202>>, -53), FNeg(Dbl(<<847, 108, 23550, 237>>, -55))>>,  \* log(0.7928294440889913) = -0.23214715729047916
     <<Dbl(<<20123, 6543, 9404, 204>>, -53), FNeg(Dbl(<<30531, 18571, 2203, 231>>, -55))>>,  \* log(0.797996067964465) = -0.2256516089072936
     <<Dbl(<<25223, 8328, 27674, 204>>, -53), FNeg(Dbl(<<14637, 10514, 4526, 114>>, -54))>>,  \* log(0.8001740281789161) = -0.22292603974792052
     <<Dbl(<<24207, 27294, 6195, 205>>, -53), FNeg(Dbl(<<24513, 3532, 20934, 56>>, -53))>>,  \* log(0.8015198508464482) = -0.2212455401195187
     <<Dbl(<<12873, 2965, 4969, 103>>, -52), FNeg(Dbl(<<3605, 28933, 16547, 110>>, -54))>>,  \* log(0.8058722234956284) = -0.21583008068611892
     <<Dbl(<<23613, 23411, 17938, 206>>, -53), FNeg(Dbl(<<12595, 2292, 26176, 219>>, -55))>>,  \* log(0.8068259614073053) = -0.21464729517573175
     <<Dbl(<<19115, 7332, 23099, 51>>, -51), FNeg(Dbl(<<21561, 23492, 14739, 218>>, -55))>>,  \* log(0.8078895682204652) = -0.2133299027961202
     <<Dbl(<<7551, 16827, 13165, 52>>, -51), FNeg(Dbl(<<3639, 24825, 19419, 25>>, -52))>>,  \* log(0.818777806056175) = -0.19994253101402903
     <<Dbl(<<12043, 21127, 13967, 106>>, -52), FNeg(Dbl(<<21025, 28195, 8255, 47>>, -53))>>,  \* log(0.8314551460161421) = -0.1845779252603884
     <<Dbl(<<17541, 26750, 11816, 53>>, -51), FNeg(Dbl(<<4027, 8157, 17805, 46>>, -53))>>,  \* log(0.8337596971328503) = -0.18181005107589188
     <<Dbl(<<19221, 15878, 24988, 213>>, -53), FNeg(Dbl(<<27239, 1540, 5234, 46>>, -53))>>,  \* log(0.8350101094932564) = -0.1803114470270203
     <<Dbl(<<31985, 14755, 32061, 107>>, -52), FNeg(Dbl(<<3761, 15846, 5933, 174>>, -55))>>,  \* log(0.8435815454284319) = -0.17009870659068363
     <<Dbl(<<3545, 13695, 21455, 13>>, -49), FNeg(Dbl(<<12657, 17674, 9961, 162>>, -55))>>,  \* log(0.8534229620772056) = -0.1585000020080645
     <<Dbl(<<12359, 26475, 27767, 54>>, -51), FNeg(Dbl(<<27209, 20226, 1050, 158>>, -55))>>,  \* log(0.8569907226392703) = -0.15432818583470212
     <<Dbl(<<29383, 967, 30287, 110>>, -52), FNeg(Dbl(<<6789, 32158, 20275, 146>>, -55))>>,  \* log(0.8665959905476244) = -0.14318239633412957
     <<Dbl(<<23261, 7806, 21740, 55>>, -51), FNeg(Dbl(<<12671, 14709, 14886, 71>>, -54))>>,  \* log(0.8697415534219162) = -0.13955917649834498
     <<Dbl(<<1143, 8081, 24838, 55>>, -51), FNeg(Dbl(<<12041, 14618, 5597, 141>>, -55))>>,  \* log(0.8712187989299838) = -0.13786212939373169
     <<Dbl(<<6159, 14672, 1120, 56>>, -51), FNeg(Dbl(<<26087, 16585, 16611, 8>>, -51))>>,  \* log(0.8755342711256229) = -0.13292098339001113
     <<Dbl(<<7517, 10048, 10965, 224>>, -53), FNeg(Dbl(<<9815, 5290, 19784, 67>>, -54))>>,  \* log(0.8763071664151699) = -0.13203860291523511
     <<Dbl(<<19773, 4665, 13388, 224>>, -53), FNeg(Dbl(<<26971, 13861, 14255, 67>>, -54))>>,  \* log(0.8765959909418722) = -0.1317090644257825
     <<Dbl(<<15659, 13899, 17846, 225>>, -53), FNeg(Dbl(<<27417, 31472, 27839, 64>>, -54))>>,  \* log(0.8810337095473292) = -0.12665939095465856
     <<Dbl(<<19231, 4925, 2525, 226>>, -53), FNeg(Dbl(<<21759, 431, 9331, 127>>, -55))>>,  \* log(0.8831135213752964) = -0.12430152336279573
     <<Dbl(<<27759, 26379, 25978, 226>>, -53), FNeg(Dbl(<<14619, 10296, 3142, 248>>, -56))>>,  \* log(0.885909414893275) = -0.12114057413075267
     <<Dbl(<<10591, 1156, 2248, 57>>, -51), FNeg(Dbl(<<15181, 19999, 24906, 234>>, -56))>>,  \* log(0.891696946758358) = -0.11462894991539692
     <<Dbl(<<14807, 28031, 13064, 230>>, -53), FNeg(Dbl(<<21611, 7481, 31046, 53>>, -54))>>,  \* log(0.8999949521365193) = -0.10536612441075616
     <<Dbl(<<16531, 20760, 14490, 116>>, -52), FNeg(Dbl(<<25513, 20307, 29698, 96>>, -55))>>,  \* log(0.9097048362637323) = -0.09463508784008681
     <<Dbl(<<9865, 31914, 26905, 116>>, -52), FNeg(Dbl(<<24581, 6700, 5229, 187>>, -56))>>,  \* log(0.9126648840778293) = -0.09138651496903101
     <<Dbl(<<17293, 30585, 17583, 58>>, -51), FNeg(Dbl(<<28919, 11371, 22480, 45>>, -54))>>,  \* log(0.9146346728306924) = -0.08923055809988462
     <<Dbl(<<4761, 12568, 15072, 234>>, -53), FNeg(Dbl(<<2849, 1504, 65, 90>>, -55))>>,  \* log(0.9158592681347556) = -0.08789256351891431
     <<Dbl(<<13773, 18781, 12502, 117>>, -52), FNeg(Dbl(<<10263, 32316, 2780, 11>>, -52))>>,  \* log(0.9170433457287459) = -0.08660053878202745
     <<Dbl(<<20903, 3283, 26548, 236>>, -53), FNeg(Dbl(<<21719, 16053, 18912, 159>>, -56))>>,  \* log(0.9250397801647993) = -0.07791853681085868
     <<Dbl(<<30163, 23093, 9061, 59>>, -51), FNeg(Dbl(<<30239, 21603, 623, 157>>, -56))>>,  \* log(0.926195957551252) = -0.07666944949775044
     <<Dbl(<<19445, 9536, 27387, 118>>, -52), FNeg(Dbl(<<19401, 31767, 4620, 152>>, -56))>>,  \* log(0.928404639013704) = -0.07428760781094391
     <<Dbl(<<18067, 14072, 1124, 60>>, -51), FNeg(Dbl(<<5229, 21024, 16448, 65>>, -55))>>,  \* log(0.9380361697483948) = -0.06396677021999456
     <<Dbl(<<16053, 15079, 6644, 60>>, -51), FNeg(Dbl(<<26671, 9083, 17383, 250>>, -57))>>,  \* log(0.9406683255145603) = -0.06116467175793649
     <<Dbl(<<15103, 5496, 13897, 120>>, -52), FNeg(Dbl(<<23223, 9512, 29461, 249>>, -57))>>,  \* log(0.940813342985791) = -0.061010519342905516
     <<Dbl(<<26473, 23608, 11234, 242>>, -53), FNeg(Dbl(<<13043, 26080, 4578, 56>>, -55))>>,  \* log(0.9466517830471562) = -0.05482395875187471
     <<Dbl(<<10589, 9461, 16770, 121>>, -52), FNeg(Dbl(<<9459, 27354, 10382, 13>>, -53))>>,  \* log(0.9493108484117194) = -0.05201898035843866
     <<Dbl(<<11405, 5228, 7951, 15>>, -49), FNeg(Dbl(<<14631, 14929, 13558, 12>>, -53))>>,  \* log(0.9526656333094028) = -0.04849129386073947
     <<Dbl(<<2313, 31234, 24765, 122>>, -52), FNeg(Dbl(<<3001, 14069, 22103, 85>>, -56))>>,  \* log(0.9590296633692239) = -0.04183327301374974
     <<Dbl(<<6765, 31764, 23034, 7>>, -48), FNeg(Dbl(<<11125, 29253, 31906, 154>>, -57))>>,  \* log(0.9628714346567229) = -0.037835381125964775
     <<Dbl(<<8573, 6076, 28522, 30>>, -50), FNeg(Dbl(<<7659, 6867, 6513, 147>>, -57))>>,  \* log(0.9647008756950273) = -0.03593719906785594
     <<Dbl(<<17813, 24698, 2085, 62>>, -51), FNeg(Dbl(<<26375, 17297, 27514, 125>>, -57))>>,  \* log(0.9697445648859664) = -0.03072257733260924
     <<Dbl(<<21537, 21428, 1598, 249>>, -53), FNeg(Dbl(<<28987, 25154, 16861, 225>>, -58))>>,  \* log(0.9728468244017031) = -0.02752863529200165
     <<Dbl(<<18029, 5156, 19727, 15>>, -49), FNeg(Dbl(<<143, 6015, 25969, 25>>, -55))>>,  \* log(0.9751265666302178) = -0.02518800448070066
     <<Dbl(<<17303, 1050, 30913, 7>>, -48), FNeg(Dbl(<<32103, 8312, 22782, 232>>, -60))>>,  \* log(0.9929238588698261) = -0.0071012957521639835
     <<Dbl(<<2805, 11084, 23400, 255>>, -53), FNeg(Dbl(<<12769, 26811, 14794, 146>>, -62))>>}  \* log(0.9988832876991568) = -0.001117336288611097

\* log(x) for 0 < x < 1
Log(x) == Lookup(LogTable, x)

Log10Table ==
    {<<Dbl(<<24769, 1741, 2750, 246>>, -48), Dbl(<<26937, 607, 20178, 47>>, -50)>>,  \* log10(30.76049062024754) = 1.4879932580463953
     <<Dbl(<<20403, 362, 20266, 67>>, -45), Dbl(<<13993, 11910, 8138, 234>>, -52)>>,  \* log10(67.61846957599991) = 1.8300653370564908
     <<Dbl(<<25731, 6573, 17533, 175>>, -46), Dbl(<<3391, 5352, 24469, 248>>, -52)>>,  \* log10(87.76753540979011) = 1.9433339031537142
     <<Dbl(<<3411, 25910, 5501, 183>>, -46), Dbl(<<11675, 11660, 12750, 31>>, -49)>>,  \* log10(91.58395066396524) = 1.9618193737904246
     <<Dbl(<<32027, 20373, 8171, 50>>, -44), Dbl(<<18413, 9464, 4531, 128>>, -51)>>,  \* log10(100.4987562112089) = 2.002160686891321
     <<Dbl(<<14781, 18550, 7417, 109>>, -45), Dbl(<<22711, 9217, 7421, 65>>, -50)>>,  \* log10(109.22636615340699) = 2.0383274853722275
     <<Dbl(<<7879, 4710, 24135, 137>>, -45), Dbl(<<5581, 9296, 29463, 136>>, -51)>>,  \* log10(137.73654613480014) = 2.139049188469221
     <<Dbl(<<7297, 13387, 8582, 144>>, -45), Dbl(<<3759, 9399, 6085, 138>>, -51)>>,  \* log10(144.26191432329145) = 2.1591516908827866
     <<Dbl(<<13519, 5431, 2760, 164>>, -45), Dbl(<<271, 28854, 25043, 141>>, -51)>>,  \* log10(164.08423357402214) = 2.215066852833963
     <<Dbl(<<1077, 26039, 27331, 96>>, -44), Dbl(<<8999, 10083, 4857, 9>>, -47)>>,  \* log10(193.668200356947) = 2.287058316933603
     <<Dbl(<<25881, 5686, 31612, 108>>, -44), Dbl(<<28087, 31631, 27069, 74>>, -50)>>,  \* log10(217.92945395184648) = 2.3383159306790082
     <<Dbl(<<21269, 1189, 27207, 223>>, -45), Dbl(<<14003, 17092, 6468, 75>>, -50)>>,  \* log10(223.83029285599392) = 2.349918862933623
     <<Dbl(<<6791, 16219, 14852, 238>>, -45), Dbl(<<24543, 306, 2520, 76>>, -50)>>,  \* log10(238.45326217562635) = 2.3774032682049144
     <<Dbl(<<23083, 32505, 2618, 64>>, -43), Dbl(<<1237, 24428, 8855, 19>>, -48)>>,  \* log10(256.3197011713104) = 2.4087819880849857
     <<Dbl(<<18999, 25389, 6039, 135>>, -44), Dbl(<<16271, 16779, 29861, 38>>, -49)>>,  \* log10(270.3686386003714) = 2.4319563142196596
     <<Dbl(<<28983, 8904, 8712, 139>>, -44), Dbl(<<30493, 29463, 15465, 156>>, -51)>>,  \* log10(278.5317548678899) = 2.4448747154082313
     <<Dbl(<<32681, 29771, 2729, 150>>, -44), Dbl(<<15863, 16463, 18061, 158>>, -51)>>,  \* log10(300.1666203960727) = 2.4773623954895316
     <<Dbl(<<21739, 25299, 3395, 184>>, -44), Dbl(<<24233, 13942, 1883, 41>>, -49)>>}  \* log10(368.2072614797641) = 2.566092349049841

\* np.log10(x) for finite x > 0
Log10(x) == Lookup(Log10Table, x)

Pow10Table ==
    {<<FNeg(Dbl(<<28061, 10692, 10609, 196>>, -51)), Dbl(<<12669, 10393, 6199, 112>>, -62)>>,  \* 10**-3.067558921012916 = 0.000855935578509464
     <<FNeg(Dbl(<<3059, 16284, 24295, 87>>, -50)), Dbl(<<22345, 29635, 23915, 118>>, -61)>>,  \* 10**-2.741919991446582 = 0.0018116738202093347
     <<FNeg(Dbl(<<6047, 20490, 8040, 5>>, -46)), Dbl(<<27129, 25805, 7834, 156>>, -61)>>,  \* 10**-2.62269020554821 = 0.00238401945099764
     <<FNeg(Dbl(<<6861, 30054, 26800, 164>>, -51)), Dbl(<<9743, 19301, 4276, 87>>, -60)>>,  \* 10**-2.575279673186151 = 0.00265901218077992
     <<FNeg(Dbl(<<24595, 31565, 20399>>, -43)), Dbl(<<18407, 13455, 16212, 26>>, -58)>>,  \* 10**-2.4902298962718987 = 0.003234224061038928
     <<FNeg(Dbl(<<16307, 25844, 146, 152>>, -51)), Dbl(<<21175, 481, 2609, 69>>, -59)>>,  \* 10**-2.3750699943120366 = 0.004216285449822761
     <<FNeg(Dbl(<<32003, 24532, 17987, 145>>, -51)), Dbl(<<14349, 3307, 9177, 174>>, -60)>>,  \* 10**-2.274202226966396 = 0.005318605435020285
     <<FNeg(Dbl(<<11517, 7389, 26989, 142>>, -51)), Dbl(<<3265, 18940, 7671, 192>>, -60)>>,  \* 10**-2.2316194655919603 = 0.005866519713779884
     <<FNeg(Dbl(<<8621, 8997, 12849, 65>>, -50)), Dbl(<<9009, 26555, 7310, 148>>, -59)>>,  \* 10**-2.0435040231463235 = 0.009046820570533494
     <<FNeg(Dbl(<<30829, 19767, 24569, 227>>, -52)), Dbl(<<13545, 23982, 5705, 136>>, -58)>>,  \* 10**-1.7792953499006459 = 0.01662281800763746
     <<FNeg(Dbl(<<11157, 22058, 18811, 1>>, -45)), Dbl(<<15011, 18492, 6970, 109>>, -57)>>,  \* 10**-1.5740867055398269 = 0.026663262876458725
     <<FNeg(Dbl(<<333, 13839, 1302, 192>>, -52)), Dbl(<<3921, 19695, 14231, 129>>, -57)>>,  \* 10**-1.5003105216820416 = 0.03160017431562657
     <<FNeg(Dbl(<<12275, 19972, 23747, 144>>, -52)), Dbl(<<18215, 13870, 26036, 75>>, -55)>>,  \* 10**-1.1306618713160759 = 0.07401813338088312
     <<FNeg(Dbl(<<25203, 7867, 15401, 255>>, -53)), Dbl(<<11109, 17207, 25513, 205>>, -56)>>,  \* 10**-0.997929720891149 = 0.10047783740053047
     <<FNeg(Dbl(<<22963, 30396, 25698, 108>>, -52)), Dbl(<<31817, 30891, 22438, 144>>, -55)>>,  \* 10**-0.8498771018108584 = 0.14129373260581904
     <<FNeg(Dbl(<<32755, 20278, 6588, 200>>, -53)), Dbl(<<10971, 30536, 18793, 84>>, -54)>>,  \* 10**-0.7820354245741313 = 0.16518270563453336
     <<FNeg(Dbl(<<4403, 28440, 25656, 93>>, -53)), Dbl(<<29717, 30358, 8428, 220>>, -54)>>,  \* 10**-0.36633978699732095 = 0.43018990316869693
     <<Dbl(<<20061, 26466, 26223, 113>>, -52), Dbl(<<13849, 8264, 28335, 247>>, -50)>>}  \* 10**0.8890647429697289 = 7.745772602281726

\* 10**x for finite x
Pow10(x) == Lookup(Pow10Table, x)

Pow23Table ==
    {<<Dbl(<<11601, 2808, 30831, 154>>, -54), Dbl(<<7985, 13822, 12801, 115>>, -53)>>,  \* 0.3026189259114363**(2/3) = 0.45074479840056914
     <<Dbl(<<7823, 15636, 25454, 215>>, -53), Dbl(<<8675, 7883, 14033, 228>>, -53)>>,  \* 0.8428781601405307**(2/3) = 0.8922978926394162
     <<Dbl(<<2385, 20815, 21833, 240>>, -53), Dbl(<<14935, 3369, 27405, 122>>, -52)>>,  \* 0.9401027721435559**(2/3) = 0.9596588856762958
     <<Dbl(<<18243, 16294, 11936, 146>>, -52), Dbl(<<9517, 26342, 31697, 139>>, -52)>>,  \* 1.1434708827186604**(2/3) = 1.093494845367171
     <<Dbl(<<7463, 25305, 13226, 95>>, -51), Dbl(<<13647, 10245, 1052, 167>>, -52)>>,  \* 1.4906820164939236**(2/3) = 1.3049383908904308
     <<Dbl(<<7559, 5151, 23140, 204>>, -51), Dbl(<<13665, 5377, 30662, 138>>, -51)>>,  \* 3.1985340868010925**(2/3) = 2.170870859196541
     <<Dbl(<<15579, 25375, 12192, 66>>, -49), Dbl(<<7427, 7423, 20161, 82>>, -50)>>,  \* 4.1482558715783195**(2/3) = 2.5817272439373964
     <<Dbl(<<13491, 23376, 1076, 94>>, -49), Dbl(<<1963, 26078, 13977, 208>>, -51)>>,  \* 5.877053667815153**(2/3) = 3.256665132445922
     <<Dbl(<<19529, 23869, 27203, 150>>, -49), Dbl(<<32539, 20907, 13110, 71>>, -49)>>,  \* 9.426886994251747**(2/3) = 4.4625065575815395
     <<Dbl(<<29105, 6443, 12412, 89>>, -48), Dbl(<<6871, 15739, 30269, 159>>, -50)>>,  \* 11.172348772628258**(2/3) = 4.997617225954591
     <<Dbl(<<30125, 14742, 31289, 49>>, -45), Dbl(<<8247, 10163, 745, 217>>, -49)>>,  \* 49.954878232366724**(2/3) = 13.563921566310553
     <<Dbl(<<1179, 7797, 11629, 209>>, -47), Dbl(<<2257, 12789, 28612, 223>>, -49)>>,  \* 52.33872404439281**(2/3) = 13.992073803503816
     <<Dbl(<<28463, 24651, 26273, 116>>, -46), Dbl(<<30215, 13637, 27605, 240>>, -49)>>,  \* 58.40090564445994**(2/3) = 15.052653152840334
     <<Dbl(<<32729, 3269, 1558, 76>>, -44), Dbl(<<22963, 706, 16166, 28>>, -45)>>,  \* 152.09509886428492**(2/3) = 28.493347826135135
     <<Dbl(<<18841, 20091, 25878, 42>>, -38), Dbl(<<12897, 22807, 11764, 155>>, -44)>>}  \* 5477.0883326023795**(2/3) = 310.718060060206

\* x**(2/3): the exponent is positive and no integer, so a negative finite
\* base gives NaN, a zero gives +0 and either infinity gives +inf
FPow23(x) ==
    IF IsNaN(x) THEN NaN
    ELSE IF x.k = "inf" THEN Inf
    ELSE IF IsZero(x) THEN SignedZero(1)
    ELSE IF x.s < 0 THEN NaN
    ELSE Lookup(Pow23Table, x)

\* pow(x, 2.0) of the C library on the moduli of the arguments the script
\* reaches; it is not always the rounded product x*x
Pow2Table ==
    {<<Dbl(<<9077, 839, 32640, 29>>, -52), Dbl(<<16911, 16683, 30848, 224>>, -57)>>,  \* pow(0.23434448852841894, 2.0) = 0.05491733930364628
     <<Dbl(<<18489, 15366, 24301, 64>>, -53), Dbl(<<25975, 2589, 32233, 130>>, -56)>>,  \* pow(0.2528969608486086, 2.0) = 0.06395687280646266
     <<Dbl(<<10385, 25055, 15345, 10>>, -50), Dbl(<<22541, 29692, 5611, 219>>, -56)>>,  \* pow(0.32713486159094973, 2.0) = 0.10701721766812984
     <<Dbl(<<15153, 15955, 32126, 17>>, -49), Dbl(<<16053, 22618, 3374, 10>>, -48)>>,  \* pow(1.1237764109078814, 2.0) = 1.2628734217129995
     <<Dbl(<<26133, 25040, 3210, 180>>, -52), Dbl(<<11713, 23990, 13128, 253>>, -52)>>,  \* pow(1.4070155058346974, 2.0) = 1.9796926336592693
     <<Dbl(<<27927, 15171, 23080, 181>>, -52), Dbl(<<22425, 23623, 31804, 128>>, -51)>>,  \* pow(1.419565311195418, 2.0) = 2.0151656727493443
     <<Dbl(<<14337, 1568, 12692, 184>>, -52), Dbl(<<15361, 360, 13228, 66>>, -50)>>,  \* pow(1.440526020017842, 2.0) = 2.075115214348444
     <<Dbl(<<32161, 2475, 24580, 94>>, -51), Dbl(<<15923, 2211, 9004, 140>>, -51)>>,  \* pow(1.4804706933789054, 2.0) = 2.1917934739538167
     <<Dbl(<<28485, 1652, 14481, 96>>, -51), Dbl(<<31127, 4733, 10775, 145>>, -51)>>,  \* pow(1.5069051029403533, 2.0) = 2.2707629892676766
     <<Dbl(<<565, 27372, 3632, 97>>, -51), Dbl(<<4061, 5327, 22149, 73>>, -50)>>,  \* pow(1.5173572708738683, 2.0) = 2.3023730874737938
     <<Dbl(<<3687, 5688, 9693, 211>>, -52), Dbl(<<14039, 25934, 13045, 174>>, -51)>>,  \* pow(1.650748532673697, 2.0) = 2.724970718124364
     <<Dbl(<<24547, 29794, 19845, 27>>, -49), Dbl(<<24171, 22585, 16972, 190>>, -51)>>,  \* pow(1.7253530679008175, 2.0) = 2.976843208914763
     <<Dbl(<<16327, 26821, 6923, 55>>, -50), Dbl(<<28473, 11292, 8486, 95>>, -50)>>,  \* pow(1.7253530679008184, 2.0) = 2.976843208914766
     <<Dbl(<<8369, 15506, 6726, 228>>, -52), Dbl(<<17197, 30280, 14034, 203>>, -51)>>,  \* pow(1.7828537161858942, 2.0) = 3.1785673733178528
     <<Dbl(<<8525, 16177, 4063, 231>>, -52), Dbl(<<13515, 21375, 10899, 104>>, -50)>>,  \* pow(1.805656312391949, 2.0) = 3.2603947184808915
     <<Dbl(<<15867, 21741, 14756, 240>>, -52), Dbl(<<32107, 5977, 28908>>, -43)>>,  \* pow(1.8785182627433403, 2.0) = 3.528830863460257
     <<Dbl(<<9515, 28211, 16310, 245>>, -52), Dbl(<<8819, 23665, 13971, 235>>, -51)>>,  \* pow(1.9179513122892995, 2.0) = 3.678537236312246
     <<Dbl(<<20843, 4244, 10640, 252>>, -52), Dbl(<<809, 2562, 17822, 15>>, -47)>>,  \* pow(1.9712868045654328, 2.0) = 3.885971665853795
     <<Dbl(<<4275, 9474, 10741, 253>>, -52), Dbl(<<30993, 19106, 22396, 250>>, -51)>>,  \* pow(1.9791234228915016, 2.0) = 3.916929523037773
     <<Dbl(<<6521, 20113, 8142, 8>>, -47), Dbl(<<12775, 19697, 616, 34>>, -48)>>,  \* pow(2.062123213242508, 2.0) = 4.252352146593605
     <<Dbl(<<5167, 669, 25547, 133>>, -51), Dbl(<<22615, 16572, 26877, 139>>, -50)>>,  \* pow(2.090306768618141, 2.0) = 4.369382386930815
     <<Dbl(<<6415, 25162, 27886, 16>>, -48), Dbl(<<22835, 21434, 16209, 35>>, -48)>>,  \* pow(2.106379577214337, 2.0) = 4.43683492330565
     <<Dbl(<<1931, 10148, 5643, 135>>, -51), Dbl(<<10295, 14722, 24455, 142>>, -50)>>,  \* pow(2.1120659397574335, 2.0) = 4.460822533883451
     <<Dbl(<<17597, 23624, 18140, 34>>, -49), Dbl(<<6547, 16080, 7995, 149>>, -50)>>,  \* pow(2.1596006793282587, 2.0) = 4.663875094155077
     <<Dbl(<<25087, 2113, 27619, 69>>, -50), Dbl(<<10213, 22041, 3590, 38>>, -48)>>,  \* pow(2.1825895924634997, 2.0) = 4.763697329129986
     <<Dbl(<<1701, 22902, 10659, 141>>, -51), Dbl(<<973, 28516, 619, 78>>, -49)>>,  \* pow(2.208207940538005, 2.0) = 4.876182308655098
     <<Dbl(<<12277, 31855, 12336, 143>>, -51), Dbl(<<7925, 23254, 19665, 160>>, -50)>>,  \* pow(2.2402577267403054, 2.0) = 5.018754682219641
     <<Dbl(<<22197, 8279, 6254, 152>>, -51), Dbl(<<23867, 19267, 15623, 90>>, -49)>>,  \* pow(2.377982260072566, 2.0) = 5.654799629219829
     <<Dbl(<<14467, 23749, 3967, 76>>, -50), Dbl(<<19457, 23141, 2477, 181>>, -50)>>,  \* pow(2.3787839172129024, 2.0) = 5.65861292479076
     <<Dbl(<<31227, 23783, 20177, 76>>, -50), Dbl(<<4575, 15638, 14312, 183>>, -50)>>,  \* pow(2.394242978886264, 2.0) = 5.73239944194617
     <<Dbl(<<30125, 6277, 30192, 155>>, -51), Dbl(<<23505, 1600, 30587, 189>>, -50)>>,  \* pow(2.436271758836219, 2.0) = 5.935420082902923
     <<Dbl(<<1355, 8329, 534, 78>>, -50), Dbl(<<27639, 12473, 3350, 95>>, -49)>>,  \* pow(2.4380095044919683, 2.0) = 5.943890343993173
     <<Dbl(<<18769, 6382, 579, 78>>, -50), Dbl(<<12235, 29310, 6919, 190>>, -50)>>,  \* pow(2.4380523631865154, 2.0) = 5.944099325639352
     <<Dbl(<<6895, 28260, 19876, 156>>, -51), Dbl(<<7639, 1602, 19872, 191>>, -50)>>,  \* pow(2.4469780265966317, 2.0) = 5.987701462646746
     <<Dbl(<<22041, 5968, 8524, 159>>, -51), Dbl(<<26423, 19297, 5066, 198>>, -50)>>,  \* pow(2.4884396467921417, 2.0) = 6.192331875726999
     <<Dbl(<<20967, 20377, 32384, 9>>, -47), Dbl(<<19105, 30243, 25104, 99>>, -49)>>,  \* pow(2.4970750570390052, 2.0) = 6.235383840486351
     <<Dbl(<<11695, 12823, 738, 80>>, -50), Dbl(<<31613, 15618, 3692, 200>>, -50)>>,  \* pow(2.500704184854313, 2.0) = 6.253521420147874
     <<Dbl(<<20933, 7067, 19231, 160>>, -51), Dbl(<<13627, 7073, 15398, 201>>, -50)>>,  \* pow(2.5091701582370853, 2.0) = 6.2959348829875195
     <<Dbl(<<11457, 25395, 11151, 80>>, -50), Dbl(<<16089, 22429, 6984, 25>>, -47)>>,  \* pow(2.5106351614041964, 2.0) = 6.303288913679076
     <<Dbl(<<23745, 31902, 19714, 40>>, -49), Dbl(<<7287, 14194, 2024, 206>>, -50)>>,  \* pow(2.5376033279302437, 2.0) = 6.439430649922648
     <<Dbl(<<841, 5460, 18088, 164>>, -51), Dbl(<<14891, 15289, 25262, 105>>, -49)>>,  \* pow(2.5711251099714088, 2.0) = 6.610684331125489
     <<Dbl(<<17269, 221, 26225, 82>>, -50), Dbl(<<19329, 6246, 12793, 13>>, -46)>>,  \* pow(2.5875101153950384, 2.0) = 6.695208597271645
     <<Dbl(<<23051, 2117, 18830, 41>>, -49), Dbl(<<6339, 24403, 1848, 216>>, -50)>>,  \* pow(2.5984154980224243, 2.0) = 6.7517631003631235
     <<Dbl(<<2399, 13303, 29022, 20>>, -48), Dbl(<<27127, 19605, 3476, 218>>, -50)>>,  \* pow(2.610711692724518, 2.0) = 6.815815542528518
     <<Dbl(<<30767, 9633, 28164, 42>>, -49), Dbl(<<3729, 24655, 13247, 57>>, -48)>>,  \* pow(2.678719127663582, 2.0) = 7.175536164910742
     <<Dbl(<<14449, 9659, 16443, 177>>, -51), Dbl(<<5421, 18232, 25180, 30>>, -47)>>,  \* pow(2.7734657739557, 2.0) = 7.692112399303689
     <<Dbl(<<1445, 19318, 18758, 89>>, -50), Dbl(<<15041, 3894, 11892, 125>>, -49)>>,  \* pow(2.7991395850562286, 2.0) = 7.835182416628756
     <<Dbl(<<9513, 19772, 20258, 5>>, -46), Dbl(<<23575, 25694, 18502, 31>>, -47)>>,  \* pow(2.8091217560182855, 2.0) = 7.891165040135256
     <<Dbl(<<16457, 25116, 13788, 1>>, -44), Dbl(<<32711, 30364, 6389, 129>>, -49)>>,  \* pow(2.8415995175060402, 2.0) = 8.074687817890561
     <<Dbl(<<13501, 6990, 24171, 182>>, -51), Dbl(<<4091, 17135, 20001, 32>>, -47)>>,  \* pow(2.855275732674811, 2.0) = 8.152599509601679
     <<Dbl(<<14903, 22576, 6897, 46>>, -49), Dbl(<<22711, 15062, 15176, 133>>, -49)>>,  \* pow(2.8881562976431336, 2.0) = 8.341446799615694
     <<Dbl(<<31541, 18666, 27112, 5>>, -46), Dbl(<<17211, 26671, 30061, 67>>, -48)>>,  \* pow(2.9137049815443135, 2.0) = 8.489676719476147
     <<Dbl(<<1565, 30928, 30544, 46>>, -49), Dbl(<<31887, 15911, 27266, 68>>, -48)>>,  \* pow(2.9332598568899417, 2.0) = 8.604013388042002
     <<Dbl(<<11191, 5324, 15826, 1>>, -44), Dbl(<<28223, 31981, 24574, 140>>, -49)>>,  \* pow(2.965952300171409, 2.0) = 8.796873046892072
     <<Dbl(<<14395, 15978, 3072, 96>>, -50), Dbl(<<4373, 31598, 9221, 144>>, -49)>>,  \* pow(3.0029301525337884, 2.0) = 9.017589500996602
     <<Dbl(<<30497, 10247, 1565, 48>>, -49), Dbl(<<21839, 9008, 4698, 72>>, -48)>>,  \* pow(3.0029855971184265, 2.0) = 9.017922496500713
     <<Dbl(<<5259, 7662, 3326, 48>>, -49), Dbl(<<14137, 16566, 19978, 144>>, -49)>>,  \* pow(3.006344287549174, 2.0) = 9.038105975279551
     <<Dbl(<<29421, 23540, 2786, 24>>, -48), Dbl(<<21303, 28484, 731, 145>>, -49)>>,  \* pow(3.0106304871032314, 2.0) = 9.063895929875441
     <<Dbl(<<29241, 12301, 710, 6>>, -46), Dbl(<<29579, 26559, 17079, 72>>, -48)>>,  \* pow(3.0108394687494098, 2.0) = 9.065154306579227
     <<Dbl(<<9105, 222, 11366, 96>>, -50), Dbl(<<26393, 20351, 1391, 145>>, -49)>>,  \* pow(3.0108394687494107, 2.0) = 9.065154306579233
     <<Dbl(<<19335, 18011, 18871, 96>>, -50), Dbl(<<17951, 3830, 14196, 36>>, -47)>>,  \* pow(3.0179973122311656, 2.0) = 9.10830777663454
     <<Dbl(<<18615, 19568, 23972, 193>>, -51), Dbl(<<20875, 22594, 19958, 146>>, -49)>>,  \* pow(3.027056025116589, 2.0) = 9.163068179194644
     <<Dbl(<<16657, 31207, 13784, 194>>, -51), Dbl(<<30249, 28435, 29932, 36>>, -47)>>,  \* pow(3.0378231775176876, 2.0) = 9.22836965786366
     <<Dbl(<<4071, 17478, 18725, 98>>, -50), Dbl(<<8751, 4812, 26794, 151>>, -49)>>,  \* pow(3.0803580602550715, 2.0) = 9.488605779378387
     <<Dbl(<<9419, 3316, 27221, 197>>, -51), Dbl(<<23561, 10117, 28799, 152>>, -49)>>,  \* pow(3.091105032541781, 2.0) = 9.554930322205125
     <<Dbl(<<2523, 17592, 4826, 3>>, -45), Dbl(<<12599, 18634, 20376, 39>>, -47)>>,  \* pow(3.1472942159296906, 2.0) = 9.905460881624485
     <<Dbl(<<1263, 8796, 18797, 1>>, -44), Dbl(<<17931, 9001, 15970, 158>>, -49)>>,  \* pow(3.147294215929776, 2.0) = 9.905460881625023
     <<Dbl(<<2409, 29832, 21909, 206>>, -51), Dbl(<<25353, 7991, 13819, 83>>, -48)>>,  \* pow(3.229197459412877, 2.0) = 10.42771623187858
     <<Dbl(<<12989, 15568, 20268, 1>>, -44), Dbl(<<17687, 9056, 31375, 20>>, -46)>>,  \* pow(3.2370895452730224, 2.0) = 10.478748724115903
     <<Dbl(<<9219, 30962, 19743, 208>>, -51), Dbl(<<6785, 12485, 32130, 169>>, -49)>>,  \* pow(3.2594146465748977, 2.0) = 10.623783838306965
     <<Dbl(<<29777, 21160, 1346, 209>>, -51), Dbl(<<26285, 16977, 11403, 85>>, -48)>>,  \* pow(3.2662671307466913, 2.0) = 10.668500969396224
     <<Dbl(<<13461, 20389, 6875, 13>>, -47), Dbl(<<26383, 28561, 16368, 174>>, -49)>>,  \* pow(3.3024568346819834, 2.0) = 10.906221144937744
     <<Dbl(<<853, 21335, 1138, 106>>, -50), Dbl(<<16297, 13106, 22204, 175>>, -49)>>,  \* pow(3.3135859023030507, 2.0) = 10.979851531941522
     <<Dbl(<<15667, 31843, 31254, 214>>, -51), Dbl(<<12223, 23415, 4004, 45>>, -47)>>,  \* pow(3.3586535319260746, 2.0) = 11.280553547519496
     <<Dbl(<<17755, 10551, 11093, 215>>, -51), Dbl(<<11653, 32640, 9301, 45>>, -47)>>,  \* pow(3.3646647081410896, 2.0) = 11.320968598210165
     <<Dbl(<<28313, 9885, 23083, 109>>, -50), Dbl(<<3941, 25784, 784, 94>>, -48)>>,  \* pow(3.4282639519621165, 2.0) = 11.75299372432291
     <<Dbl(<<10171, 28487, 23909, 224>>, -51), Dbl(<<16899, 6900, 20955, 98>>, -48)>>,  \* pow(3.5114011141604045, 2.0) = 12.32993778452693
     <<Dbl(<<18011, 5798, 21859, 56>>, -49), Dbl(<<30369, 20149, 22853, 200>>, -49)>>,  \* pow(3.5416930712846604, 2.0) = 12.54358981118577
     <<Dbl(<<31845, 13892, 609, 228>>, -51), Dbl(<<20575, 19029, 3133, 203>>, -49)>>,  \* pow(3.562790595998694, 2.0) = 12.69347683093673
     <<Dbl(<<25567, 2154, 12699, 234>>, -51), Dbl(<<25875, 11534, 9825, 107>>, -48)>>,  \* pow(3.662305386428201, 2.0) = 13.412480743461014
     <<Dbl(<<30173, 24798, 7763, 235>>, -51), Dbl(<<2621, 31382, 5172, 216>>, -49)>>,  \* pow(3.675577047730924, 2.0) = 13.509866633806377
     <<Dbl(<<28215, 18125, 24190, 117>>, -50), Dbl(<<11875, 23539, 2450, 27>>, -46)>>,  \* pow(3.679319909245854, 2.0) = 13.53739499457292
     <<Dbl(<<25667, 117, 24700, 238>>, -51), Dbl(<<24885, 9751, 21935, 222>>, -49)>>,  \* pow(3.7305278795215897, 2.0) = 13.916838259887848
     <<Dbl(<<6449, 13433, 15337, 60>>, -49), Dbl(<<31845, 8255, 17175, 228>>, -49)>>,  \* pow(3.77925378789641, 2.0) = 14.282759193329364
     <<Dbl(<<29461, 2199, 10797, 242>>, -51), Dbl(<<24817, 3344, 12747, 229>>, -49)>>,  \* pow(3.786398442809864, 2.0) = 14.336813167712963
     <<Dbl(<<7505, 13668, 21029, 7>>, -46), Dbl(<<30031, 31318, 19632, 14>>, -45)>>,  \* pow(3.82088343996044, 2.0) = 14.599150261763924
     <<Dbl(<<15525, 27156, 9799, 79>>, -49), Dbl(<<6537, 7934, 16734, 196>>, -48)>>,  \* pow(4.956191689967747, 2.0) = 24.563836067705356
     <<Dbl(<<19981, 21257, 662, 5>>, -45), Dbl(<<24655, 18045, 26559, 100>>, -47)>>,  \* pow(5.020222434410613, 2.0) = 25.202633290959618
     <<Dbl(<<31241, 4475, 26927, 165>>, -50), Dbl(<<9687, 12922, 26842, 214>>, -48)>>,  \* pow(5.18192971858526, 2.0) = 26.85239560835711
     <<Dbl(<<29335, 4653, 21312, 83>>, -49), Dbl(<<23061, 28472, 21848, 13>>, -44)>>,  \* pow(5.228149684954856, 2.0) = 27.333549128293555
     <<Dbl(<<24941, 11737, 7254, 21>>, -47), Dbl(<<16031, 17269, 5688, 225>>, -48)>>,  \* pow(5.3053463608401685, 2.0) = 28.14670000848002
     <<Dbl(<<3729, 7965, 19467, 177>>, -50), Dbl(<<27857, 11865, 19690, 61>>, -46)>>,  \* pow(5.549815409732802, 2.0) = 30.80045108210767
     <<Dbl(<<27639, 13728, 18836, 184>>, -50), Dbl(<<14087, 21266, 2543, 133>>, -47)>>,  \* pow(5.767963808985761, 2.0) = 33.26940650176953
     <<Dbl(<<10091, 23475, 29758, 2>>, -44), Dbl(<<6817, 17913, 10442, 135>>, -47)>>,  \* pow(5.816327905855985, 2.0) = 33.82967030843907
     <<Dbl(<<24613, 8821, 7754, 50>>, -48), Dbl(<<18663, 14237, 28385, 78>>, -46)>>,  \* pow(6.279580189584653, 2.0) = 39.43312735742403
     <<Dbl(<<16353, 29202, 27159, 204>>, -50), Dbl(<<21125, 408, 29038, 163>>, -47)>>,  \* pow(6.400901690663859, 2.0) = 40.97154245354344
     <<Dbl(<<21029, 9098, 30967, 204>>, -50), Dbl(<<20097, 3417, 591, 41>>, -45)>>,  \* pow(6.404532697361479, 2.0) = 41.018039071572304
     <<Dbl(<<8059, 5370, 28511, 103>>, -49), Dbl(<<16819, 30252, 18941, 168>>, -47)>>,  \* pow(6.491880729459572, 2.0) = 42.144515405528544
     <<Dbl(<<22839, 6125, 16018, 106>>, -49), Dbl(<<167, 9703, 19423, 88>>, -46)>>,  \* pow(6.655552266962884, 2.0) = 44.29637597827478
     <<Dbl(<<6655, 29796, 21508, 108>>, -49), Dbl(<<20217, 5557, 15469, 184>>, -47)>>,  \* pow(6.7910249887618175, 2.0) = 46.11802039798744
     <<Dbl(<<3495, 23421, 11346, 221>>, -50), Dbl(<<20593, 5247, 12566, 191>>, -47)>>,  \* pow(6.917071070437863, 2.0) = 47.8458721934884
     <<Dbl(<<17521, 17791, 26888, 1>>, -43), Dbl(<<19967, 21716, 1041, 53>>, -45)>>,  \* pow(7.282292841131607, 2.0) = 53.03178902399665
     <<Dbl(<<2487, 15362, 20042, 116>>, -49), Dbl(<<22239, 12248, 3875, 53>>, -45)>>,  \* pow(7.288227975489333, 2.0) = 53.11826702270534
     <<Dbl(<<15567, 4518, 3567, 117>>, -49), Dbl(<<18387, 13612, 9464, 214>>, -47)>>,  \* pow(7.319303775583107, 2.0) = 53.57220775926512
     <<Dbl(<<31311, 19207, 11378, 7>>, -45), Dbl(<<22259, 25245, 31590, 107>>, -46)>>,  \* pow(7.347246892708853, 2.0) = 53.98203690241989
     <<Dbl(<<14559, 29965, 18241, 117>>, -49), Dbl(<<15155, 22140, 30503, 215>>, -47)>>,  \* pow(7.347293690629554, 2.0) = 53.98272457636485
     <<Dbl(<<21539, 2908, 11936, 242>>, -50), Dbl(<<14995, 21351, 14903, 229>>, -47)>>,  \* pow(7.573883141293694, 2.0) = 57.36370583797284
     <<Dbl(<<26779, 11290, 23403, 30>>, -47), Dbl(<<16555, 29952, 27548, 235>>, -47)>>,  \* pow(7.678553349063087, 2.0) = 58.960181534407944
     <<Dbl(<<9351, 19144, 30909, 3>>, -44), Dbl(<<28989, 5366, 25953, 248>>, -47)>>,  \* pow(7.88657130354153, 2.0) = 62.198006925844744
     <<Dbl(<<23317, 27729, 30933, 32>>, -47), Dbl(<<3957, 2117, 21745, 135>>, -46)>>,  \* pow(8.236006517361751, 2.0) = 67.83180335402524
     <<Dbl(<<25243, 8199, 10204, 8>>, -45), Dbl(<<14923, 13054, 5211, 138>>, -46)>>,  \* pow(8.311409003818738, 2.0) = 69.0795196287592
     <<Dbl(<<11079, 21937, 1973, 134>>, -49), Dbl(<<30951, 21285, 6674, 70>>, -45)>>,  \* pow(8.378764475773677, 2.0) = 70.20369414048693
     <<Dbl(<<26963, 17206, 15003, 8>>, -45), Dbl(<<14889, 1385, 25159, 35>>, -44)>>,  \* pow(8.457871249711928, 2.0) = 71.53558607670362
     <<Dbl(<<6695, 9641, 12581, 136>>, -49), Dbl(<<3067, 32416, 10388, 145>>, -46)>>,  \* pow(8.523996914341366, 2.0) = 72.65852339570112
     <<Dbl(<<10897, 27297, 30832, 136>>, -49), Dbl(<<5201, 9434, 9475, 2>>, -40)>>,  \* pow(8.558808961960752, 2.0) = 73.25321084733969
     <<Dbl(<<315, 21076, 2542, 137>>, -49), Dbl(<<29957, 12679, 26180, 146>>, -46)>>,  \* pow(8.56734970700983, 2.0) = 73.39948100220143
     <<Dbl(<<22129, 21184, 10308, 139>>, -49), Dbl(<<23681, 14022, 20622, 151>>, -46)>>,  \* pow(8.707162182817429, 2.0) = 75.81467327788597
     <<Dbl(<<14835, 1285, 22263, 70>>, -48), Dbl(<<7959, 12112, 916, 39>>, -44)>>,  \* pow(8.834926754871002, 2.0) = 78.05593076393546
     <<Dbl(<<7701, 21241, 23900, 141>>, -49), Dbl(<<10633, 2540, 7630, 39>>, -44)>>,  \* pow(8.858086868726824, 2.0) = 78.4657029739106
     <<Dbl(<<23001, 26899, 31139, 147>>, -49), Dbl(<<7913, 15332, 331, 171>>, -46)>>,  \* pow(9.246894494845877, 2.0) = 85.505057798811
     <<Dbl(<<18949, 32505, 21130, 156>>, -49), Dbl(<<19039, 21509, 31539, 23>>, -43)>>,  \* pow(9.790304168685006, 2.0) = 95.85005571537101
     <<Dbl(<<11001, 24685, 27795, 157>>, -49), Dbl(<<17247, 10897, 10882, 24>>, -43)>>,  \* pow(9.865516192124675, 2.0) = 97.32840973707414
     <<Dbl(<<24731, 24631, 26315, 79>>, -48), Dbl(<<13171, 15119, 546, 199>>, -46)>>,  \* pow(9.975386626058576, 2.0) = 99.5083383393483
     <<Dbl(<<3653, 17311, 8280, 1>>, -42), Dbl(<<25787, 21892, 28359, 200>>, -46)>>,  \* pow(10.02161335283131, 2.0) = 100.4327341936468
     <<Dbl(<<991, 2298, 2553, 20>>, -46), Dbl(<<1229, 7061, 12790, 50>>, -44)>>,  \* pow(10.038956758580284, 2.0) = 100.78065280064476
     <<Dbl(<<8407, 13486, 9839, 161>>, -49), Dbl(<<29341, 11533, 8647, 203>>, -46)>>,  \* pow(10.081267188201691, 2.0) = 101.63194811991202
     <<Dbl(<<17301, 21474, 25703, 162>>, -49), Dbl(<<15731, 29343, 707, 207>>, -46)>>,  \* pow(10.174025831891223, 2.0) = 103.51080162798989
     <<Dbl(<<27107, 11688, 21427, 164>>, -49), Dbl(<<12061, 2198, 26345, 211>>, -46)>>,  \* pow(10.290869439534566, 2.0) = 105.90199382154647
     <<Dbl(<<5883, 18581, 11514, 82>>, -48), Dbl(<<24425, 19637, 30466, 211>>, -46)>>,  \* pow(10.293924587450402, 2.0) = 105.96488341211592
     <<Dbl(<<31401, 12761, 15053, 83>>, -48), Dbl(<<5853, 25637, 27376, 108>>, -45)>>,  \* pow(10.432424123626934, 2.0) = 108.8354730952332
     <<Dbl(<<25889, 27353, 12935, 21>>, -46), Dbl(<<6825, 28580, 28445, 228>>, -46)>>,  \* pow(10.697385174124534, 2.0) = 114.43404956357939
     <<Dbl(<<17097, 29012, 12763, 174>>, -49), Dbl(<<2015, 21489, 19380, 237>>, -46)>>,  \* pow(10.899345179351615, 2.0) = 118.79572533865529
     <<Dbl(<<21389, 5361, 19845, 5>>, -44), Dbl(<<17509, 3902, 12595, 251>>, -46)>>,  \* pow(11.211252662637719, 2.0) = 125.69218626550135
     <<Dbl(<<27081, 19064, 26306, 2>>, -43), Dbl(<<17957, 3902, 12595, 251>>, -46)>>,  \* pow(11.211252662638003, 2.0) = 125.69218626550771
     <<Dbl(<<23311, 3899, 29453, 179>>, -49), Dbl(<<3093, 16943, 27543, 252>>, -46)>>,  \* pow(11.243677366275305, 2.0) = 126.42028071689158
     <<Dbl(<<2847, 24605, 3149, 45>>, -47), Dbl(<<18325, 17787, 6800, 254>>, -46)>>,  \* pow(11.274030692197123, 2.0) = 127.10376804860273
     <<Dbl(<<25119, 20674, 19751, 46>>, -47), Dbl(<<19319, 16326, 31697, 16>>, -42)>>,  \* pow(11.650692985105927, 2.0) = 135.73864703319646
     <<Dbl(<<3827, 28941, 24414, 23>>, -46), Dbl(<<13653, 30677, 31366, 140>>, -45)>>,  \* pow(11.872541552929576, 2.0) = 140.9572429260394
     <<Dbl(<<11379, 30275, 17186, 95>>, -48), Dbl(<<18197, 4370, 21111, 35>>, -43)>>,  \* pow(11.940562911721326, 2.0) = 142.57704264877486
     <<Dbl(<<13063, 7284, 10909, 191>>, -49), Dbl(<<30147, 25964, 36, 143>>, -45)>>,  \* pow(11.958307690243158, 2.0) = 143.00112281452866
     <<Dbl(<<30211, 21065, 10025, 24>>, -46), Dbl(<<15217, 21068, 30268, 36>>, -43)>>,  \* pow(12.152979169935904, 2.0) = 147.69490270489598
     <<Dbl(<<2873, 27105, 8483, 195>>, -49), Dbl(<<20603, 9507, 7617, 37>>, -43)>>,  \* pow(12.203681616175901, 2.0) = 148.92984498898966
     <<Dbl(<<24255, 1763, 1953, 3>>, -43), Dbl(<<31395, 22170, 25515, 149>>, -45)>>,  \* pow(12.23840989075677, 2.0) = 149.77867665417315
     <<Dbl(<<2115, 26419, 28385, 208>>, -49), Dbl(<<25029, 16195, 6727, 85>>, -44)>>,  \* pow(13.054141628734333, 2.0) = 170.41061366305468
     <<Dbl(<<10841, 2685, 31991, 210>>, -49), Dbl(<<13731, 12160, 28543, 173>>, -45)>>,  \* pow(13.186018146419132, 2.0) = 173.87107455769464
     <<Dbl(<<11457, 25765, 20755, 106>>, -48), Dbl(<<11721, 31615, 21854, 177>>, -45)>>,  \* pow(13.329177041229517, 2.0) = 177.66696059644008
     <<Dbl(<<3435, 7489, 3417>>, -38), Dbl(<<389, 15703, 6021, 178>>, -45)>>,  \* pow(13.348549020865903, 2.0) = 178.18376096246007
     <<Dbl(<<19237, 25426, 2982, 27>>, -46), Dbl(<<953, 11593, 15759, 183>>, -45)>>,  \* pow(13.54551354916164, 2.0) = 183.48093731052157
     <<Dbl(<<21935, 2413, 20429, 13>>, -45), Dbl(<<14319, 20824, 26212, 5>>, -40)>>,  \* pow(13.623445851420428, 2.0) = 185.59827686658446
     <<Dbl(<<10913, 20351, 15897, 226>>, -49), Dbl(<<6549, 22372, 6113, 100>>, -44)>>,  \* pow(14.155322305819313, 2.0) = 200.3731495816258
     <<Dbl(<<29345, 11128, 12754, 14>>, -45), Dbl(<<12923, 29524, 1637, 207>>, -45)>>,  \* pow(14.389231555997895, 2.0) = 207.0499847721256
     <<Dbl(<<9241, 17077, 26242, 230>>, -49), Dbl(<<19765, 20514, 2692, 208>>, -45)>>,  \* pow(14.425053636850906, 2.0) = 208.08217242602555
     <<Dbl(<<9679, 25388, 27659, 235>>, -49), Dbl(<<26375, 6720, 10446, 54>>, -43)>>,  \* pow(14.74025683362825, 2.0) = 217.2751715213243
     <<Dbl(<<17555, 16822, 19957, 29>>, -46), Dbl(<<28731, 24567, 5702, 219>>, -45)>>,  \* pow(14.80452748692396, 2.0) = 219.17403411108702
     <<Dbl(<<15659, 27355, 7042, 119>>, -48), Dbl(<<32645, 25369, 24844, 27>>, -42)>>,  \* pow(14.901866282741292, 2.0) = 222.06561870870178
     <<Dbl(<<1673, 31029, 30466, 121>>, -48), Dbl(<<7005, 24902, 9661, 232>>, -45)>>,  \* pow(15.241222179151496, 2.0) = 232.29485351425947
     <<Dbl(<<19629, 30523, 14244, 122>>, -48), Dbl(<<3985, 18358, 7301, 234>>, -45)>>,  \* pow(15.304340101266167, 2.0) = 234.2228259352237
     <<Dbl(<<20359, 4097, 27356, 246>>, -49), Dbl(<<23789, 2162, 16366, 59>>, -43)>>,  \* pow(15.42717766771217, 2.0) = 237.99781079115712
     <<Dbl(<<22167, 24955, 30062, 31>>, -46), Dbl(<<17753, 645, 22308, 254>>, -45)>>,  \* pow(15.958721337689312, 2.0) = 254.68078673402013
     <<Dbl(<<17815, 17216, 6385, 128>>, -48), Dbl(<<13373, 19547, 1597, 16>>, -41)>>,  \* pow(16.024358846310488, 2.0) = 256.7800764353292
     <<Dbl(<<28703, 9605, 4171, 32>>, -46), Dbl(<<26983, 23583, 668, 129>>, -44)>>,  \* pow(16.063648882264246, 2.0) = 258.04081541266936
     <<Dbl(<<2777, 22516, 28787, 128>>, -48), Dbl(<<18523, 31428, 25004, 129>>, -44)>>,  \* pow(16.1098163114028, 2.0) = 259.52618158713966
     <<Dbl(<<18389, 8057, 12968, 129>>, -48), Dbl(<<31431, 6587, 5748, 8>>, -40)>>,  \* pow(16.174469932164204, 2.0) = 261.6134775864839
     <<Dbl(<<4441, 19550, 12181, 32>>, -46), Dbl(<<9169, 23272, 24504, 32>>, -42)>>,  \* pow(16.18587641331159, 2.0) = 261.98259526699644
     <<Dbl(<<16699, 28141, 2190, 131>>, -48), Dbl(<<2521, 18301, 6789, 134>>, -44)>>,  \* pow(16.383357463114617, 2.0) = 268.4144017641934
     <<Dbl(<<26899, 21926, 26641, 32>>, -46), Dbl(<<15647, 30915, 19232, 134>>, -44)>>,  \* pow(16.406519609885706, 2.0) = 269.1738857095642
     <<Dbl(<<4957, 3481, 13504, 16>>, -45), Dbl(<<8529, 2507, 21944, 33>>, -42)>>,  \* pow(16.41211261707477, 2.0) = 269.3574405555448
     <<Dbl(<<19599, 20449, 25256, 65>>, -47), Dbl(<<26255, 22631, 19350, 67>>, -43)>>,  \* pow(16.44269274957434, 2.0) = 270.3621448569046
     <<Dbl(<<13759, 16045, 19126, 66>>, -47), Dbl(<<27055, 21151, 17805, 138>>, -44)>>,  \* pow(16.64592353567013, 2.0) = 277.0867703553767
     <<Dbl(<<28759, 5017, 17934, 34>>, -46), Dbl(<<16989, 20273, 19489, 74>>, -43)>>,  \* pow(17.273653459678243, 2.0) = 298.37910384505415
     <<Dbl(<<19315, 9717, 30349, 138>>, -48), Dbl(<<24603, 4476, 12862, 75>>, -43)>>,  \* pow(17.365773378590756, 2.0) = 301.5700850365714
     <<Dbl(<<25419, 15327, 30265, 34>>, -46), Dbl(<<15893, 24023, 14990, 152>>, -44)>>,  \* pow(17.46181438852834, 2.0) = 304.91496173941533
     <<Dbl(<<32029, 26927, 23283, 70>>, -47), Dbl(<<1403, 24307, 8175, 156>>, -44)>>,  \* pow(17.677641462529415, 2.0) = 312.49900767773914
     <<Dbl(<<20171, 3172, 11951, 35>>, -46), Dbl(<<25821, 30981, 10908, 156>>, -44)>>,  \* pow(17.682359265450188, 2.0) = 312.6658291924521
     <<Dbl(<<20491, 8133, 4836, 72>>, -47), Dbl(<<27525, 13852, 21785, 162>>, -44)>>,  \* pow(18.036897645710347, 2.0) = 325.3296766818315
     <<Dbl(<<20199, 14868, 2660, 36>>, -46), Dbl(<<5407, 12633, 11188, 20>>, -41)>>,  \* pow(18.040595302645315, 2.0) = 325.4630788738282
     <<Dbl(<<20201, 14868, 2660, 36>>, -46), Dbl(<<21637, 17764, 11985, 81>>, -43)>>,  \* pow(18.040595302645343, 2.0) = 325.4630788738292
     <<Dbl(<<14117, 9997, 31240, 144>>, -48), Dbl(<<21159, 12211, 4987, 164>>, -44)>>,  \* pow(18.11917230643225, 2.0) = 328.3044050701814
     <<Dbl(<<14271, 32173, 6202, 18>>, -45), Dbl(<<14119, 17188, 5555, 5>>, -39)>>,  \* pow(18.18929998337805, 2.0) = 330.8506338853167
     <<Dbl(<<23263, 30198, 9312>>, -39), Dbl(<<29305, 12870, 23352, 82>>, -43)>>,  \* pow(18.189299983378078, 2.0) = 330.85063388531773
     <<Dbl(<<28139, 25756, 857, 146>>, -48), Dbl(<<8099, 32762, 19364, 166>>, -44)>>,  \* pow(18.25327219404964, 2.0) = 333.18194579006575
     <<Dbl(<<28545, 13273, 21343, 73>>, -47), Dbl(<<14199, 23704, 16917, 169>>, -44)>>,  \* pow(18.412837258044426, 2.0) = 339.032575891229
     <<Dbl(<<23827, 21196, 8030, 148>>, -48), Dbl(<<26679, 4043, 27725, 85>>, -43)>>,  \* pow(18.53063448666678, 2.0) = 343.3844144784442
     <<Dbl(<<21609, 13198, 11894, 2>>, -42), Dbl(<<21229, 16780, 22244, 178>>, -44)>>,  \* pow(18.903906931426036, 2.0) = 357.35769727201733
     <<Dbl(<<6037, 14005, 4562, 155>>, -48), Dbl(<<26351, 19389, 1070, 188>>, -44)>>,  \* pow(19.39240427934381, 2.0) = 376.0653437335122
     <<Dbl(<<18121, 2212, 29818, 4>>, -43), Dbl(<<8197, 30745, 28273, 192>>, -44)>>,  \* pow(19.63990082052726, 2.0) = 385.7257042401473
     <<Dbl(<<4791, 1459, 15265, 158>>, -48), Dbl(<<12977, 4435, 5997, 196>>, -44)>>,  \* pow(19.80823152362674, 2.0) = 392.36603609360014
     <<Dbl(<<10867, 126, 22829, 39>>, -46), Dbl(<<5861, 22258, 10195, 12>>, -40)>>,  \* pow(19.848342954335564, 2.0) = 393.95671803292225
     <<Dbl(<<17035, 19346, 19344, 79>>, -47), Dbl(<<20597, 12986, 32063, 98>>, -43)>>,  \* pow(19.897587512275173, 2.0) = 395.9139888086489
     <<Dbl(<<16501, 8795, 4820, 40>>, -46), Dbl(<<15983, 10440, 15523, 201>>, -44)>>,  \* pow(20.073551459006765, 2.0) = 402.94746817739264
     <<Dbl(<<3713, 22275, 6929, 20>>, -45), Dbl(<<6891, 10805, 8254, 204>>, -44)>>,  \* pow(20.211477044144004, 2.0) = 408.50380430596005
     <<Dbl(<<8715, 1401, 2868, 81>>, -47), Dbl(<<1217, 21481, 24159, 102>>, -43)>>,  \* pow(20.27188142977328, 2.0) = 410.94917670278676
     <<Dbl(<<16145, 4461, 707, 163>>, -48), Dbl(<<23573, 18130, 26628, 103>>, -43)>>,  \* pow(20.377697510352906, 2.0) = 415.25055582344305
     <<Dbl(<<28407, 29901, 4868, 5>>, -43), Dbl(<<22131, 11071, 1042, 106>>, -43)>>,  \* pow(20.594349674384716, 2.0) = 424.1272385108299
     <<Dbl(<<25455, 6987, 30907, 20>>, -45), Dbl(<<32039, 10230, 10128, 219>>, -44)>>,  \* pow(20.94321329498368, 2.0) = 438.6181831191811
     <<Dbl(<<6043, 1346, 1532, 169>>, -48), Dbl(<<30747, 1729, 20583, 111>>, -43)>>,  \* pow(21.13084427292743, 2.0) = 446.51257968670996
     <<Dbl(<<9805, 26118, 8525, 44>>, -46), Dbl(<<20405, 17286, 14262, 122>>, -43)>>,  \* pow(22.130093339038652, 2.0) = 489.7410311945629
     <<Dbl(<<16865, 20300, 12190, 177>>, -48), Dbl(<<10565, 1864, 29291, 122>>, -43)>>,  \* pow(22.17150352295892, 2.0) = 491.5755684685797
     <<Dbl(<<15285, 22972, 24479, 46>>, -46), Dbl(<<30923, 8872, 19021, 136>>, -43)>>,  \* pow(23.373530594849242, 2.0) = 546.3219324683536
     <<Dbl(<<1485, 22864, 32302, 5>>, -43), Dbl(<<29197, 30186, 10459, 143>>, -43)>>,  \* pow(23.94320040958121, 2.0) = 573.2768458533698
     <<Dbl(<<17667, 10920, 7999, 26>>, -45), Dbl(<<6349, 17444, 6175, 172>>, -43)>>,  \* pow(26.244120277966516, 2.0) = 688.7538491643733
     <<Dbl(<<22587, 32397, 4551, 13>>, -44), Dbl(<<17003, 798, 10340, 86>>, -42)>>,  \* pow(26.277831341492572, 2.0) = 690.5244200119294
     <<Dbl(<<2685, 12476, 16852, 109>>, -47), Dbl(<<13549, 27687, 12994, 187>>, -43)>>,  \* pow(27.378573461454813, 2.0) = 749.5862847842778
     <<Dbl(<<4661, 28392, 1274, 55>>, -46), Dbl(<<8471, 26440, 10815, 189>>, -43)>>,  \* pow(27.51945291838713, 2.0) = 757.320288927326
     <<Dbl(<<25215, 16240, 4319, 232>>, -48), Dbl(<<12229, 10159, 16023, 210>>, -43)>>,  \* pow(29.016477568164643, 2.0) = 841.9559704638019
     <<Dbl(<<30453, 31914, 22458, 63>>, -46), Dbl(<<8929, 8145, 24401, 126>>, -42)>>,  \* pow(31.84269674631271, 2.0) = 1013.9573360776342
     <<Dbl(<<30267, 24251, 5626, 4>>, -42), Dbl(<<20265, 14894, 20080, 69>>, -41)>>,  \* pow(33.373715847161975, 2.0) = 1113.8049094471103
     <<Dbl(<<3999, 14716, 5562, 67>>, -46), Dbl(<<8281, 18539, 8134, 35>>, -40)>>,  \* pow(33.58487623749396, 2.0) = 1127.9439118877863
     <<Dbl(<<11829, 9999, 31973, 137>>, -47), Dbl(<<903, 19327, 23886, 148>>, -42)>>,  \* pow(34.49393695950531, 2.0) = 1189.8316869663265
     <<Dbl(<<8151, 25782, 16874, 4>>, -42), Dbl(<<28401, 28319, 25232, 40>>, -40)>>,  \* pow(36.11982099897227, 2.0) = 1304.6414689977983
     <<Dbl(<<32607, 4824, 1963, 18>>, -44), Dbl(<<15355, 14975, 2627, 163>>, -42)>>,  \* pow(36.11982099897244, 2.0) = 1304.6414689978108
     <<Dbl(<<8247, 811, 13248, 72>>, -46), Dbl(<<4317, 16087, 27015, 163>>, -42)>>,  \* pow(36.2021488152685, 2.0) = 1310.5955788428466
     <<Dbl(<<8249, 811, 13248, 72>>, -46), Dbl(<<18547, 24427, 29891, 81>>, -41)>>,  \* pow(36.20214881526853, 2.0) = 1310.5955788428487
     <<Dbl(<<25643, 24823, 13393, 72>>, -46), Dbl(<<6463, 32482, 27674, 163>>, -42)>>,  \* pow(36.204372521388606, 2.0) = 1310.7565896674785
     <<Dbl(<<26999, 21041, 18948>>, -39), Dbl(<<18457, 7976, 19806, 85>>, -41)>>,  \* pow(37.009066690441614, 2.0) = 1369.671017297555
     <<Dbl(<<30941, 11508, 25424, 4>>, -42), Dbl(<<5625, 13142, 15498, 182>>, -42)>>,  \* pow(38.20711699831668, 2.0) = 1459.7837893230592
     <<Dbl(<<175, 19254, 14788, 87>>, -46), Dbl(<<10165, 12417, 24507, 59>>, -40)>>,  \* pow(43.72565593850116, 2.0) = 1911.932987252182
     <<Dbl(<<21503, 14829, 15062, 22>>, -44), Dbl(<<32295, 26537, 30831, 3>>, -36)>>,  \* pow(44.91933914582472, 2.0) = 2017.7470292976213
     <<Dbl(<<4129, 11847, 23529>>, -39), Dbl(<<8939, 1726, 32633, 131>>, -41)>>,  \* pow(45.95578426873726, 2.0) = 2111.934107754719
     <<Dbl(<<529, 25714, 16021, 11>>, -43), Dbl(<<4481, 17247, 32700, 65>>, -40)>>,  \* pow(45.955784268737375, 2.0) = 2111.9341077547297
     <<Dbl(<<6049, 4582, 13317, 94>>, -46), Dbl(<<22547, 30011, 26696, 34>>, -39)>>,  \* pow(47.20320342769129, 2.0) = 2228.142413836007
     <<Dbl(<<11299, 27782, 12231, 12>>, -43), Dbl(<<1609, 5415, 17993, 76>>, -40)>>,  \* pow(49.49314548948712, 2.0) = 2449.571450443539
     <<Dbl(<<22019, 14536, 16497, 26>>, -44), Dbl(<<4383, 20090, 26351, 87>>, -40)>>,  \* pow(53.006924049317774, 2.0) = 2809.733997170143
     <<Dbl(<<8371, 27316, 27531, 26>>, -44), Dbl(<<16759, 15276, 1624, 90>>, -40)>>,  \* pow(53.68040976720948, 2.0) = 2881.586392775519
     <<Dbl(<<18223, 15354, 18956, 27>>, -44), Dbl(<<31133, 15820, 17559, 47>>, -39)>>,  \* pow(55.15701102196448, 2.0) = 3042.295864877111
     <<Dbl(<<21117, 22789, 15034, 225>>, -47), Dbl(<<24617, 3996, 18391, 198>>, -41)>>,  \* pow(56.364705623510396, 2.0) = 3176.9800400249846
     <<Dbl(<<3925, 14153, 27636, 113>>, -46), Dbl(<<3017, 6851, 21514, 12>>, -37)>>,  \* pow(56.92169848509123, 2.0) = 3240.079758427637
     <<Dbl(<<18979, 29633, 14887, 57>>, -45), Dbl(<<7815, 2677, 10243, 206>>, -41)>>,  \* pow(57.454342783968144, 2.0) = 3301.0015047377124
     <<Dbl(<<8713, 32012, 25806, 28>>, -44), Dbl(<<12355, 27994, 5930, 207>>, -41)>>,  \* pow(57.575132869679294, 2.0) = 3314.895924961225
     <<Dbl(<<9207, 24310, 10609, 115>>, -46), Dbl(<<18235, 14282, 26406, 207>>, -41)>>,  \* pow(57.661891813520796, 2.0) = 3324.8937675141765
     <<Dbl(<<11615, 32467, 12078, 238>>, -47), Dbl(<<12293, 12557, 31974, 110>>, -40)>>,  \* pow(59.592155386543475, 2.0) = 3551.2249836139426
     <<Dbl(<<11091, 19463, 30929, 14>>, -43), Dbl(<<7133, 24253, 27197, 55>>, -39)>>,  \* pow(59.77558520189848, 2.0) = 3573.1205862294246
     <<Dbl(<<22183, 6158, 29091, 29>>, -44), Dbl(<<28547, 31476, 10486, 223>>, -41)>>,  \* pow(59.77558520189854, 2.0) = 3573.1205862294314
     <<Dbl(<<23941, 22683, 22799, 241>>, -47), Dbl(<<27807, 12399, 1563, 57>>, -39)>>,  \* pow(60.42394784738557, 2.0) = 3651.053473463571
     <<Dbl(<<2327, 19027, 11986, 31>>, -44), Dbl(<<19043, 5808, 31240, 245>>, -41)>>,  \* pow(62.73160282349403, 2.0) = 3935.253992804604
     <<Dbl(<<19163, 2794, 32159>>, -39), Dbl(<<2057, 11853, 18812, 246>>, -41)>>,  \* pow(62.810713445234796, 2.0) = 3945.185723499399
     <<Dbl(<<30631, 13271, 9112, 32>>, -44), Dbl(<<4947, 32674, 7679, 130>>, -40)>>,  \* pow(64.55617706465495, 2.0) = 4167.499997203081
     <<Dbl(<<17859, 21524, 6472, 16>>, -43), Dbl(<<7989, 25604, 5897, 131>>, -40)>>,  \* pow(64.79011924767872, 2.0) = 4197.759552128428
     <<Dbl(<<18865, 22759, 2157, 4>>, -41), Dbl(<<19853, 2771, 8157, 132>>, -40)>>,  \* pow(65.05356180035642, 2.0) = 4231.9659029127915
     <<Dbl(<<5513, 9161, 7710, 133>>, -46), Dbl(<<25063, 3222, 22437, 138>>, -40)>>,  \* pow(66.61764952967327, 2.0) = 4437.911228858377
     <<Dbl(<<3217, 9127, 31315, 133>>, -46), Dbl(<<22267, 14214, 3087, 70>>, -39)>>,  \* pow(66.97783322962847, 2.0) = 4486.030144135924
     <<Dbl(<<19281, 17851, 30841, 137>>, -46), Dbl(<<7691, 15823, 10723, 74>>, -39)>>,  \* pow(68.9706046262702, 2.0) = 4756.944302513284
     <<Dbl(<<7237, 9416, 9618, 69>>, -45), Dbl(<<19001, 25313, 16791, 37>>, -38)>>,  \* pow(69.2935268359453, 2.0) = 4801.592861363872
     <<Dbl(<<24811, 10635, 25245, 8>>, -42), Dbl(<<9215, 23058, 27549, 153>>, -40)>>,  \* pow(70.16340932069102, 2.0) = 4922.904007502831
     <<Dbl(<<26259, 24730, 29618, 70>>, -45), Dbl(<<15975, 22360, 3442, 157>>, -40)>>,  \* pow(70.90389266125985, 2.0) = 5027.361994519458
     <<Dbl(<<10633, 13744, 18107, 36>>, -44), Dbl(<<25667, 17456, 377, 167>>, -40)>>,  \* pow(73.1051891750181, 2.0) = 5344.368684315184
     <<Dbl(<<24031, 23355, 24352, 18>>, -43), Dbl(<<4885, 17408, 29929, 43>>, -38)>>,  \* pow(74.97274325688693, 2.0) = 5620.912231463084
     <<Dbl(<<32631, 3066, 14245, 9>>, -42), Dbl(<<12453, 3226, 8307, 22>>, -37)>>,  \* pow(75.47780605402454, 2.0) = 5696.899206728944
     <<Dbl(<<24711, 8474, 15244, 76>>, -45), Dbl(<<8163, 32155, 27510, 22>>, -37)>>,  \* pow(76.46521785366733, 2.0) = 5846.929541408805
     <<Dbl(<<31645, 7558, 17725, 19>>, -43), Dbl(<<27885, 23712, 15138, 95>>, -39)>>,  \* pow(78.1637244484042, 2.0) = 6109.567819646059
     <<Dbl(<<31561, 19200, 31155, 19>>, -43), Dbl(<<22695, 27773, 24715, 49>>, -38)>>,  \* pow(79.8031721150993, 2.0) = 6368.546279632163
     <<Dbl(<<29977, 30187, 8332, 40>>, -44), Dbl(<<7969, 3144, 18058, 202>>, -40)>>,  \* pow(80.50860115124812, 2.0) = 6481.634859330749
     <<Dbl(<<6437, 19548, 29972, 163>>, -46), Dbl(<<21607, 10514, 31235, 104>>, -39)>>,  \* pow(81.95734552861957, 2.0) = 6717.006486097538
     <<Dbl(<<10477, 23742, 9688, 41>>, -44), Dbl(<<28223, 24864, 19113, 106>>, -39)>>,  \* pow(82.59135281726668, 2.0) = 6821.331560186225
     <<Dbl(<<1211, 32280, 13102, 41>>, -44), Dbl(<<23697, 17561, 7984, 214>>, -40)>>,  \* pow(82.79974274344175, 2.0) = 6855.797398380136
     <<Dbl(<<4535, 26655, 2198, 42>>, -44), Dbl(<<8631, 32513, 19744, 110>>, -39)>>,  \* pow(84.13420492250174, 2.0) = 7078.564437941515
     <<Dbl(<<26331, 31203, 13661, 168>>, -46), Dbl(<<6763, 25602, 13072, 55>>, -38)>>,  \* pow(84.20846484778615, 2.0) = 7091.065552020835
     <<Dbl(<<135, 17564, 14995, 42>>, -44), Dbl(<<18839, 30284, 10854, 225>>, -40)>>,  \* pow(84.91525488347582, 2.0) = 7210.600511925665
     <<Dbl(<<18653, 16437, 26245, 170>>, -46), Dbl(<<6555, 27614, 29942, 227>>, -40)>>,  \* pow(85.40047457328497, 2.0) = 7293.241057342292
     <<Dbl(<<11733, 19655, 14978, 21>>, -43), Dbl(<<385, 1141, 6678, 230>>, -40)>>,  \* pow(85.8284423625397, 2.0) = 7366.5215183798
     <<Dbl(<<15487, 30471, 17901, 44>>, -44), Dbl(<<1197, 24897, 1535, 248>>, -40)>>,  \* pow(89.09264708957193, 2.0) = 7937.499765427009
     <<Dbl(<<5713, 30579, 2945, 91>>, -45), Dbl(<<11797, 13400, 13487, 32>>, -37)>>,  \* pow(91.08990274665351, 2.0) = 8297.370382394794
     <<Dbl(<<19707, 8791, 8038, 23>>, -43), Dbl(<<11885, 17191, 17794, 67>>, -38)>>,  \* pow(92.98123392314244, 2.0) = 8645.509861870134
     <<Dbl(<<11403, 117, 9406, 23>>, -43), Dbl(<<22023, 587, 25750, 67>>, -38)>>,  \* pow(93.14819379653034, 2.0) = 8676.586007555972
     <<Dbl(<<10901, 4242, 9233, 99>>, -45), Dbl(<<19251, 21134, 445, 154>>, -39)>>,  \* pow(99.28177274980831, 2.0) = 9856.87040034458
     <<Dbl(<<13917, 3583, 21069, 99>>, -45), Dbl(<<28267, 7490, 4466, 155>>, -39)>>,  \* pow(99.64297819083995, 2.0) = 9928.723102740207
     <<Dbl(<<2691, 16986, 27890, 99>>, -45), Dbl(<<18143, 7005, 25729, 155>>, -39)>>,  \* pow(99.85115107342799, 2.0) = 9970.252370688539
     <<Dbl(<<2695, 16986, 27890, 99>>, -45), Dbl(<<12731, 9943, 31008, 38>>, -37)>>,  \* pow(99.8511510734281, 2.0) = 9970.252370688562
     <<Dbl(<<17883, 191, 23574, 102>>, -45), Dbl(<<13791, 4526, 28303, 164>>, -39)>>,  \* pow(102.71942156510963, 2.0) = 10551.279566670708
     <<Dbl(<<15625, 22465, 6664, 108>>, -45), Dbl(<<25107, 16188, 30706, 182>>, -39)>>,  \* pow(108.20339006323073, 2.0) = 11707.973621175659
     <<Dbl(<<1335, 8538, 20809, 13>>, -42), Dbl(<<2077, 27177, 31367, 92>>, -38)>>,  \* pow(109.08038587898568, 2.0) = 11898.530583508418
     <<Dbl(<<13733, 17320, 31849, 111>>, -45), Dbl(<<20945, 14354, 31964, 48>>, -37)>>,  \* pow(111.97197047660043, 2.0) = 12537.72217241268
     <<Dbl(<<6869, 25044, 32308, 55>>, -44), Dbl(<<18261, 24650, 29553, 195>>, -39)>>,  \* pow(111.97197047660057, 2.0) = 12537.72217241271
     <<Dbl(<<25457, 22735, 18392, 56>>, -44), Dbl(<<13935, 18530, 8139, 6>>, -34)>>,  \* pow(113.12260094243453, 2.0) = 12796.72284398129
     <<Dbl(<<8817, 28327, 15325, 28>>, -43), Dbl(<<9147, 3640, 19746, 202>>, -39)>>,  \* pow(113.87083306636316, 2.0) = 12966.566623227545
     <<Dbl(<<30339, 29648, 1672, 116>>, -45), Dbl(<<26961, 26450, 7128, 105>>, -38)>>,  \* pow(116.05105300333898, 2.0) = 13467.846903183792
     <<Dbl(<<10115, 578, 26659, 239>>, -46), Dbl(<<8901, 3504, 21318, 224>>, -39)>>,  \* pow(119.90678432691315, 2.0) = 14377.636927620866
     <<Dbl(<<22699, 21373, 2091, 123>>, -45), Dbl(<<10857, 7678, 18989, 29>>, -36)>>,  \* pow(123.0638321616619, 2.0) = 15144.70678631369
     <<Dbl(<<11851, 32122, 1261, 127>>, -45), Dbl(<<29763, 7985, 5521, 252>>, -39)>>,  \* pow(127.03851258229619, 2.0) = 16138.783679122227
     <<Dbl(<<2545, 22945, 31970, 66>>, -44), Dbl(<<28331, 31349, 2938, 70>>, -37)>>,  \* pow(133.95133668385012, 2.0) = 17942.96059939017
     <<Dbl(<<26869, 8484, 25374, 33>>, -43), Dbl(<<27351, 24266, 19281, 142>>, -38)>>,  \* pow(135.09744371779254, 2.0) = 18251.319299082123
     <<Dbl(<<20975, 16969, 17980, 67>>, -44), Dbl(<<27373, 24266, 19281, 142>>, -38)>>,  \* pow(135.09744371779283, 2.0) = 18251.319299082203
     <<Dbl(<<15089, 8415, 23717, 146>>, -45), Dbl(<<24995, 24346, 10287, 1>>, -31)>>,  \* pow(146.72379323789895, 2.0) = 21527.87150211772
     <<Dbl(<<12985, 29117, 3110, 19>>, -42), Dbl(<<7313, 9046, 5051, 91>>, -37)>>,  \* pow(152.7594942852577, 2.0) = 23335.463094287676
     <<Dbl(<<2031, 22057, 23450, 9>>, -41), Dbl(<<10463, 22710, 19611, 23>>, -35)>>,  \* pow(155.45052398833604, 2.0) = 24164.86540824824
     <<Dbl(<<28733, 29727, 9008, 157>>, -45), Dbl(<<29359, 10671, 8039, 193>>, -38)>>,  \* pow(157.27493002999282, 2.0) = 24735.403615939136
     <<Dbl(<<17981, 15006, 21258, 39>>, -43), Dbl(<<7325, 29848, 16481, 196>>, -38)>>,  \* pow(158.59502660687542, 2.0) = 25152.382464435523
     <<Dbl(<<8141, 32352, 3518, 40>>, -43), Dbl(<<14661, 3655, 2469, 201>>, -38)>>,  \* pow(160.42956388089226, 2.0) = 25737.64496701329
     <<Dbl(<<27061, 10599, 15723, 84>>, -44), Dbl(<<12303, 19962, 16815, 111>>, -37)>>,  \* pow(168.95967550543293, 2.0) = 28547.371946901192
     <<Dbl(<<27639, 16068, 4158, 43>>, -43), Dbl(<<11459, 24226, 16097, 232>>, -38)>>,  \* pow(172.5076282204817, 2.0) = 29758.881794255936
     <<Dbl(<<30091, 19979, 23996, 21>>, -42), Dbl(<<28845, 22676, 2405, 118>>, -37)>>,  \* pow(173.85854729949165, 2.0) = 30226.794469089575
     <<Dbl(<<4995, 12008, 31718, 89>>, -44), Dbl(<<30727, 28246, 30960, 252>>, -38)>>,  \* pow(179.93593545286438, 2.0) = 32376.940867297377
     <<Dbl(<<30341, 14129, 23669, 90>>, -44), Dbl(<<8461, 13745, 19733, 128>>, -37)>>,  \* pow(181.44466743231925, 2.0) = 32922.16733962493
     <<Dbl(<<8403, 5762, 19585, 182>>, -45), Dbl(<<18331, 22906, 3962, 65>>, -36)>>,  \* pow(182.59769213409763, 2.0) = 33341.9171726987
     <<Dbl(<<30615, 21212, 31491, 47>>, -43), Dbl(<<14065, 16243, 28940, 71>>, -36)>>,  \* pow(191.84419523527583, 2.0) = 36804.19524547063
     <<Dbl(<<23949, 1500, 940, 6>>, -40), Dbl(<<16251, 2299, 12462, 145>>, -37)>>,  \* pow(192.91801347526507, 2.0) = 37217.359923242555
     <<Dbl(<<15549, 17753, 24897, 197>>, -45), Dbl(<<26131, 12603, 12604, 76>>, -36)>>,  \* pow(197.75981267678972, 2.0) = 39108.94350995896
     <<Dbl(<<333, 2995, 31587, 214>>, -45), Dbl(<<4031, 19950, 16576, 180>>, -37)>>,  \* pow(214.96396152955495, 2.0) = 46209.50475647998
     <<Dbl(<<26815, 4839, 31652, 6>>, -40), Dbl(<<8265, 8655, 3200, 194>>, -37)>>,  \* pow(222.91030048782613, 2.0) = 49689.00206357294
     <<Dbl(<<5021, 4812, 25446, 55>>, -43), Dbl(<<7493, 10486, 19980, 48>>, -35)>>,  \* pow(223.10621909854274, 2.0) = 49776.38500044696
     <<Dbl(<<29247, 14842, 30336, 27>>, -42), Dbl(<<28451, 23752, 15769, 97>>, -36)>>,  \* pow(223.40636058816722, 2.0) = 49910.4019512502
     <<Dbl(<<16083, 25795, 31655, 57>>, -43), Dbl(<<29105, 26762, 130, 210>>, -37)>>,  \* pow(231.86423183787917, 2.0) = 53761.02200576978
     <<Dbl(<<14589, 25540, 1770, 58>>, -43), Dbl(<<15815, 2157, 10518, 105>>, -36)>>,  \* pow(232.2161595986978, 2.0) = 53924.34477876789
     <<Dbl(<<25591, 3857, 7083, 232>>, -45), Dbl(<<31635, 4314, 21036, 210>>, -37)>>,  \* pow(232.21615959869789, 2.0) = 53924.344778767925
     <<Dbl(<<2233, 8312, 11453, 122>>, -44), Dbl(<<22591, 2610, 29392, 233>>, -37)>>,  \* pow(244.69905112696466, 2.0) = 59877.62562243686
     <<Dbl(<<20059, 16945, 30598, 126>>, -44), Dbl(<<6495, 1789, 28720, 125>>, -36)>>,  \* pow(253.86758527459978, 2.0) = 64448.75085315619
     <<Dbl(<<18683, 18685, 821, 4>>, -39), Dbl(<<24331, 9329, 19977, 129>>, -36)>>,  \* pow(257.6046293717718, 2.0) = 66360.14507376791
     <<Dbl(<<4603, 4603, 1643, 8>>, -40), Dbl(<<14315, 10524, 13186, 32>>, -34)>>,  \* pow(257.60462937177635, 2.0) = 66360.14507377025
     <<Dbl(<<8859, 7707, 9214, 16>>, -41), Dbl(<<18111, 8749, 17651, 132>>, -36)>>,  \* pow(260.4991382847779, 2.0) = 67859.80104711185
     <<Dbl(<<6411, 32234, 22017, 16>>, -41), Dbl(<<20055, 8783, 24385, 34>>, -34)>>,  \* pow(266.7509686081953, 2.0) = 71156.0792534104
     <<Dbl(<<7639, 30301, 31604, 8>>, -40), Dbl(<<19831, 28012, 23747, 160>>, -36)>>,  \* pow(286.8641842971183, 2.0) = 82291.06023245105
     <<Dbl(<<7645, 30301, 31604, 8>>, -40), Dbl(<<10023, 30390, 11873, 80>>, -35)>>,  \* pow(286.86418429712376, 2.0) = 82291.06023245418
     <<Dbl(<<19509, 7468, 2120, 10>>, -40), Dbl(<<23245, 16132, 19547, 202>>, -36)>>,  \* pow(322.0705350814869, 2.0) = 103729.4295676753
     <<Dbl(<<19571, 25383, 8428, 162>>, -44), Dbl(<<12171, 8981, 22376, 205>>, -36)>>,  \* pow(324.5144515775093, 2.0) = 105309.62928265163
     <<Dbl(<<303, 16669, 11413, 10>>, -40), Dbl(<<31425, 9393, 5739, 214>>, -36)>>,  \* pow(331.14600458768746, 2.0) = 109657.67635438872
     <<Dbl(<<18225, 21574, 21540, 226>>, -44), Dbl(<<14315, 1248, 22216, 200>>, -35)>>,  \* pow(453.3147374513674, 2.0) = 205494.25119060217
     <<Dbl(<<28741, 3959, 15368, 7>>, -39), Dbl(<<14733, 7490, 4709, 223>>, -35)>>,  \* pow(478.01586102706824, 2.0) = 228499.16339344942
     <<Dbl(<<24719, 7919, 30736, 14>>, -40), Dbl(<<7441, 20129, 18738, 111>>, -34)>>,  \* pow(478.0158610270728, 2.0) = 228499.16339345375
     <<Dbl(<<20727, 11734, 14575, 1>>, -36), Dbl(<<31923, 25943, 19577, 133>>, -33)>>,  \* pow(739.7399705088319, 2.0) = 547215.2239684075
     <<Dbl(<<25045, 7041, 768, 201>>, -43), Dbl(<<1969, 13363, 27958, 157>>, -33)>>,  \* pow(804.0937762326163, 2.0) = 646566.8009760288
     <<Dbl(<<27107, 18295, 31666, 6>>, -38), Dbl(<<6841, 11789, 4003, 194>>, -33)>>,  \* pow(891.697493532567, 2.0) = 795124.4199722625
     <<Dbl(<<11411, 2058, 26733, 204>>, -42), Dbl(<<179, 24679, 31664, 40>>, -29)>>,  \* pow(1638.5266266640144, 2.0) = 2684769.5062869545
     <<Dbl(<<11413, 2058, 26733, 204>>, -42), Dbl(<<719, 412, 28355, 163>>, -31)>>,  \* pow(1638.5266266640149, 2.0) = 2684769.506286956
     <<Dbl(<<8879, 17458, 20437, 6>>, -37), Dbl(<<18177, 11941, 28621, 43>>, -29)>>,  \* pow(1695.6682248761572, 2.0) = 2875290.728854658
     <<Dbl(<<19897, 17122, 7609, 235>>, -42), Dbl(<<25943, 16730, 4889, 216>>, -31)>>,  \* pow(1881.85779358899, 2.0) = 3541388.7552916217
     <<Dbl(<<24831, 9531, 30670, 86>>, -40), Dbl(<<30085, 29596, 6005, 236>>, -30)>>,  \* pow(2781.9514559435183, 2.0) = 7739253.903226261
     <<Dbl(<<29921, 28243, 2194, 23>>, -38), Dbl(<<28347, 27299, 16734, 66>>, -28)>>,  \* pow(2952.5736794368167, 2.0) = 8717691.332503062
     <<Dbl(<<21381, 14671, 8779, 92>>, -40), Dbl(<<23929, 21831, 701, 133>>, -29)>>,  \* pow(2952.5736794368177, 2.0) = 8717691.332503067
     <<Dbl(<<5493, 68, 19065, 197>>, -41), Dbl(<<13615, 18326, 16201, 152>>, -29)>>,  \* pow(3161.309083047027, 2.0) = 9993875.118555633
     <<Dbl(<<2747, 16418, 25916, 98>>, -40), Dbl(<<13617, 18326, 16201, 152>>, -29)>>,  \* pow(3161.3090830470273, 2.0) = 9993875.118555637
     <<Dbl(<<24843, 18477, 16726, 49>>, -39), Dbl(<<16547, 27457, 6727, 153>>, -29)>>,  \* pow(3168.6690701102107, 2.0) = 10040463.675873106
     <<Dbl(<<25995, 28097, 248, 104>>, -40), Dbl(<<24333, 13374, 16788, 84>>, -28)>>,  \* pow(3328.2430248794944, 2.0) = 11077201.632659007
     <<Dbl(<<9773, 24019, 17650, 208>>, -41), Dbl(<<19705, 25896, 30743, 84>>, -28)>>,  \* pow(3336.618521977935, 2.0) = 11133023.16120622
     <<Dbl(<<31917, 21088, 3734, 107>>, -40), Dbl(<<15141, 5983, 20839, 89>>, -28)>>,  \* pow(3427.647112875403, 2.0) = 11748764.730403084
     <<Dbl(<<15959, 10544, 18251, 53>>, -39), Dbl(<<15143, 5983, 20839, 89>>, -28)>>,  \* pow(3427.6471128754038, 2.0) = 11748764.730403092
     <<Dbl(<<22325, 25761, 16837, 60>>, -39), Dbl(<<13659, 2470, 14260, 114>>, -28)>>,  \* pow(3872.886301140863, 2.0) = 14999248.301564556
     <<Dbl(<<28715, 19892, 8946, 15>>, -37), Dbl(<<9443, 14642, 20732, 116>>, -28)>>,  \* pow(3909.8953678313046, 2.0) = 15287281.787388694
     <<Dbl(<<10419, 12359, 19775, 66>>, -39), Dbl(<<12741, 12452, 20506, 138>>, -28)>>,  \* pow(4262.623783547757, 2.0) = 18169961.520066995
     <<Dbl(<<28611, 13967, 26899, 70>>, -39), Dbl(<<11941, 1597, 24167, 156>>, -28)>>,  \* pow(4532.537941925117, 2.0) = 20543900.194990773
     <<Dbl(<<25047, 18649, 4050, 150>>, -40), Dbl(<<30647, 14194, 2329, 176>>, -28)>>,  \* pow(4803.95563393129, 2.0) = 23077989.732780185
     <<Dbl(<<9759, 8659, 15155, 101>>, -39), Dbl(<<23027, 10608, 27975, 160>>, -27)>>,  \* pow(6493.600125509371, 2.0) = 42166842.590015315
     <<Dbl(<<6027, 24410, 4796, 54>>, -38), Dbl(<<3011, 15680, 26537, 45>>, -25)>>,  \* pow(6930.737284920684, 2.0) = 48035119.312589735
     <<Dbl(<<27911, 26573, 11462, 218>>, -40), Dbl(<<11609, 8636, 7762, 186>>, -27)>>,  \* pow(6987.194151337498, 2.0) = 48820882.10848493
     <<Dbl(<<7569, 19327, 12310, 247>>, -40), Dbl(<<2165, 27157, 17070, 119>>, -26)>>,  \* pow(7916.022060371369, 2.0) = 62663405.26028617
     <<Dbl(<<30977, 9811, 13, 65>>, -38), Dbl(<<20933, 16622, 269, 33>>, -24)>>,  \* pow(8320.051950925033, 2.0) = 69223264.46609145
     <<Dbl(<<16419, 5635, 21154, 151>>, -39), Dbl(<<4495, 10374, 21601, 179>>, -26)>>,  \* pow(9705.31674215204, 2.0) = 94193173.06549667
     <<Dbl(<<30769, 23204, 6110, 152>>, -39), Dbl(<<12199, 27348, 30905, 180>>, -26)>>,  \* pow(9739.934976872146, 2.0) = 94866333.3536974
     <<Dbl(<<24925, 15392, 11359, 91>>, -38), Dbl(<<15215, 16744, 6198, 65>>, -24)>>,  \* pow(11692.372928710061, 2.0) = 136711584.70403188
     <<Dbl(<<29821, 1648, 5238, 221>>, -39), Dbl(<<12981, 3015, 2007, 191>>, -25)>>,  \* pow(14154.230567032699, 2.0) = 200342242.9447228
     <<Dbl(<<17913, 6130, 21697, 248>>, -39), Dbl(<<18863, 6879, 25143, 120>>, -24)>>,  \* pow(15914.377318534056, 2.0) = 253267405.4366712
     <<Dbl(<<17915, 6130, 21697, 248>>, -39), Dbl(<<18865, 6879, 25143, 120>>, -24)>>,  \* pow(15914.37731853406, 2.0) = 253267405.43667132
     <<Dbl(<<16657, 21505, 405, 39>>, -36), Dbl(<<10979, 25448, 8051, 190>>, -24)>>,  \* pow(19974.33837962548, 2.0) = 398974193.7037794
     <<Dbl(<<16023, 25200, 19997, 41>>, -36), Dbl(<<30267, 21998, 13990, 216>>, -24)>>,  \* pow(21304.465141529552, 2.0) = 453880234.9666478
     <<Dbl(<<23541, 12420, 24861, 46>>, -36), Dbl(<<27007, 30132, 10625, 68>>, -22)>>,  \* pow(23940.45904766007, 2.0) = 573145579.412689
     <<Dbl(<<6257, 13310, 21777, 56>>, -36), Dbl(<<25579, 19773, 5568, 50>>, -21)>>,  \* pow(29012.271971793627, 2.0) = 841711924.965322
     <<Dbl(<<24921, 12585, 24779, 235>>, -38), Dbl(<<32663, 19565, 3710, 217>>, -23)>>,  \* pow(30176.79446908957, 2.0) = 910638924.429675
     <<Dbl(<<28845, 22676, 28773, 117>>, -37), Dbl(<<24563, 27021, 4559, 27>>, -20)>>,  \* pow(30176.794469089575, 2.0) = 910638924.4296751
     <<Dbl(<<28905, 7291, 22060, 160>>, -37), Dbl(<<17955, 2645, 9919, 6>>, -17)>>,  \* pow(41132.34548852017, 2.0) = 1691869845.3869858
     <<Dbl(<<12315, 21530, 20621, 178>>, -37), Dbl(<<3167, 27622, 10523, 62>>, -20)>>,  \* pow(45729.10669574161, 2.0) = 2091151199.1905203
     <<Dbl(<<6159, 27149, 10310, 89>>, -36), Dbl(<<3169, 27622, 10523, 62>>, -20)>>,  \* pow(45729.10669574163, 2.0) = 2091151199.1905222
     <<Dbl(<<21935, 20604, 21066, 132>>, -33), Dbl(<<14581, 28389, 23825, 68>>, -13)>>,  \* pow(543305.328600576, 2.0) = 295180680085.7799
     <<Dbl(<<25947, 21767, 9508, 8>>, -29), Dbl(<<23675, 30578, 11912, 34>>, -12)>>,  \* pow(543305.3286005761, 2.0) = 295180680085.78
     <<Dbl(<<30763, 26581, 7359, 39>>, -31), Dbl(<<17893, 25866, 10524, 192>>, -14)>>,  \* pow(642655.9056081972, 2.0) = 413006613013.0921
     <<Dbl(<<28759, 20395, 14719, 78>>, -32), Dbl(<<8949, 12933, 5262, 96>>, -13)>>,  \* pow(642655.9056081974, 2.0) = 413006613013.0924
     <<Dbl(<<22817, 27311, 20514, 87>>, -30), Dbl(<<4251, 25196, 31054, 239>>, -10)>>,  \* pow(2871330.833486826, 2.0) = 8244540755332.151
     <<Dbl(<<12867, 21855, 8261, 175>>, -31), Dbl(<<2127, 12598, 31911, 119>>, -9)>>,  \* pow(2871330.8334868266, 2.0) = 8244540755332.154
     <<Dbl(<<31367, 32575, 20292, 91>>, -26), Dbl(<<18103, 18556, 5168, 131>>, -1)>>,  \* pow(48034895.90622912, 2.0) = 2307351224722267.5
     <<Dbl(<<29969, 32383, 7817, 183>>, -27), Dbl(<<18107, 18556, 5168, 131>>, -1)>>,  \* pow(48034895.906229146, 2.0) = 2307351224722269.5
     <<Dbl(<<10775, 2170, 1064, 132>>, -26), Dbl(<<31201, 14852, 3145, 68>>, 1)>>,  \* pow(69223041.05973087, 2.0) = 4791829413557186.0
     <<Dbl(<<2389, 30666, 15445, 90>>, -25), Dbl(<<30483, 14972, 29219, 127>>, 1)>>,  \* pow(94866109.94733682, 2.0) = 8999578816540198.0
     <<Dbl(<<26719, 1328, 12390, 130>>, -25), Dbl(<<2361, 31705, 6556, 33>>, 4)>>,  \* pow(136711361.2976713, 2.0) = 1.8689996307862416e+16
     <<Dbl(<<28241, 11218, 13808, 253>>, -25), Dbl(<<11723, 29186, 14233, 125>>, 4)>>}  \* pow(265731594.95591977, 2.0) = 7.061328055781701e+16

\* x**2 of a float64 scalar (lines 257, 262, 276, 286): pow(x, 2.0) of the
\* C library, an even function of x
FPow2(x) ==
    IF IsNaN(x) THEN NaN
    ELSE IF x.k = "inf" THEN Inf
    ELSE IF IsZero(x) THEN SignedZero(1)
    ELSE Lookup(Pow2Table, FAbs(x))

(***************************************************************************)
(* complex128 values are pairs <<real part, imaginary part>>; a float64    *)
(* operand of a complex operation is converted with a +0 imaginary part.   *)
(***************************************************************************)
Cplx(x) == <<x, R(0)>>

\* 1j
ImagUnit == <<R(0), R(1)>>

CAdd(a, b) == <<FAdd(a[1], b[1]), FAdd(a[2], b[2])>>

CSub(a, b) == <<FSub(a[1], b[1]), FSub(a[2], b[2])>>

\* the real part of the product a*b
CMulRe(a, b) == FSub(FMul(a[1], b[1]), FMul(a[2], b[2]))

\* the imaginary part of the product a*b
CMulIm(a, b) == FAdd(FMul(a[1], b[2]), FMul(a[2], b[1]))

CMul(a, b) == <<CMulRe(a, b), CMulIm(a, b)>>

CConj(a) == <<a[1], FNeg(a[2])>>

\* the quotient once the ratio and the scale of the divisor are known
CDivByReal(a, rat, scl) ==
    <<FMul(FAdd(a[1], FMul(a[2], rat)), scl), FMul(FSub(a[2], FMul(a[1], rat)), scl)>>

CDivByImag(a, rat, scl) ==
    <<FMul(FAdd(FMul(a[1], rat), a[2]), scl), FMul(FSub(FMul(a[2], rat), a[1]), scl)>>

CDivReal(a, b, rat) == CDivByReal(a, rat, FDiv(R(1), FAdd(b[1], FMul(b[2], rat))))

CDivImag(a, b, rat) == CDivByImag(a, rat, FDiv(R(1), FAdd(b[2], FMul(b[1], rat))))

\* a / b as numpy's complex division loop computes it: the divisor is
\* scaled by its part of larger modulus; a zero divisor divides both parts
\* by |b.real|; a NaN part of the divisor fails both comparisons
CDiv(a, b) ==
    IF FLe(FAbs(b[2]), FAbs(b[1]))
    THEN (IF IsZero(b[1]) /\ IsZero(b[2])
          THEN <<FDiv(a[1], FAbs(b[1])), FDiv(a[2], FAbs(b[1]))>>
          ELSE CDivReal(a, b, FDiv(b[2], b[1])))
    ELSE CDivImag(a, b, FDiv(b[1], b[2]))

Re(a) == [i \in 1..Len(a) |-> a[i][1]]

Im(a) == [i \in 1..Len(a) |-> a[i][2]]

(***************************************************************************)
(* numpy's sums.  A reduction along an axis that is not contiguous in      *)
(* memory adds the terms one by one; a reduction of contiguous values      *)
(* adds, to the identity 0, their pairwise sum: one by one below a block   *)
(* of w values, in w running lanes from there on (w = 8 for real values,   *)
(* 4 for complex ones), for arrays of at most 16 blocks.                   *)
(***************************************************************************)
\* the array a as the values it holds
Array(a) == a @@ <<>>

\* acc + a[i] + ... + a[Len(a)], added left to right
RECURSIVE FoldFrom(_, _, _)
FoldFrom(acc, a, i) == IF i > Len(a) THEN acc ELSE FoldFrom(FAdd(acc, a[i]), a, i + 1)

\* the w lanes after the blocks of a, the first i values already added
RECURSIVE LaneSums(_, _, _, _)
LaneSums(r, a, i, w) ==
    IF i >= Len(a) - (Len(a) % w) THEN r
    ELSE LaneSums(Array([j \in 1..w |-> FAdd(r[j], a[i + j])]), a, i + w, w)

\* the lanes added up as the loop does
LaneTotal(r) ==
    IF Len(r) = 8
    THEN FAdd(FAdd(FAdd(r[1], r[2]), FAdd(r[3], r[4])),
              FAdd(FAdd(r[5], r[6]), FAdd(r[7], r[8])))
    ELSE FAdd(FAdd(r[1], r[2]), FAdd(r[3], r[4]))

PairwiseSum(a, w) ==
    IF Len(a) < w THEN FoldFrom(R(0), a, 1)
    ELSE FoldFrom(LaneTotal(LaneSums(SubSeq(a, 1, w), a, w, w)), a,
                  Len(a) - (Len(a) % w) + 1)

\* x.sum() of a contiguous real array
FSum(a) == FAdd(R(0), PairwiseSum(Array(a), 8))

\* x.sum() of a contiguous complex array
ComplexSum(a) ==
    <<FAdd(R(0), PairwiseSum(Array(Re(a)), 4)), FAdd(R(0), PairwiseSum(Array(Im(a)), 4))>>

\* x.sum(axis) of a real array along a strided axis
StridedSum(a) == FoldFrom(R(0), Array(a), 1)

\* x.sum(axis) of a complex array along a strided axis
ComplexStridedSum(a) ==
    <<FoldFrom(R(0), Array(Re(a)), 1), FoldFrom(R(0), Array(Im(a)), 1)>>

(***************************************************************************)
(* The generator (line 41).  np.random.seed(42) initialises the Mersenne   *)
(* Twister of the legacy RandomState; Stream lists its 32-bit outputs in   *)
(* order, each as its upper and lower 16 bits.  A generator state is the   *)
(* number of doubles taken so far together with the normal sample that     *)
(* legacy_gauss keeps for its next call.                                   *)
(***************************************************************************)
Stream ==
    <<<<24545, 56422>>, <<52202, 15795>>, <<62306, 860>>, <<12021, 38158>>, <<47971, 62570>>, <<51097, 54343>>,
      <<39233, 44732>>, <<39115, 11284>>, <<10224, 54886>>, <<29218, 6265>>, <<10223, 16850>>, <<6551, 62678>>,
      <<3806, 37194>>, <<30097, 21962>>, <<56765, 47191>>, <<21869, 60788>>, <<39394, 44131>>, <<9362, 60263>>,
      <<46404, 16023>>, <<42656, 41090>>, <<1349, 1685>>, <<3696, 64820>>, <<63564, 769>>, <<47316, 59735>>,
      <<54554, 62955>>, <<61508, 64925>>, <<13915, 56101>>, <<51, 2433>>, <<11916, 5311>>, <<65025, 37819>>,
      <<12019, 39188>>, <<40467, 17568>>, <<19938, 53707>>, <<40085, 19769>>, <<34390, 28693>>, <<463, 6396>>,
      <<28307, 62187>>, <<1511, 27480>>, <<19085, 65072>>, <<34391, 41434>>, <<40098, 25658>>, <<26205, 18942>>,
      <<9141, 57001>>, <<3058, 18431>>, <<19145, 64987>>, <<63816, 2747>>, <<24009, 58319>>, <<15254, 59150>>,
      <<29889, 189>>, <<5937, 64445>>, <<51457, 19118>>, <<40526, 35773>>, <<13085, 53810>>, <<25065, 1899>>,
      <<33700, 56886>>, <<64437, 1267>>, <<38824, 31551>>, <<30589, 50680>>, <<3044, 11394>>, <<56357, 3556>>,
      <<39816, 3890>>, <<44584, 41606>>, <<11175, 30740>>, <<29523, 60232>>, <<4263, 14502>>, <<869, 21777>>,
      <<62186, 10627>>, <<61748, 8792>>, <<63283, 43323>>, <<36915, 43021>>, <<52979, 8433>>, <<25258, 43001>>,
      <<19963, 11016>>, <<1046, 23897>>, <<6401, 2612>>, <<15131, 56193>>, <<44841, 58707>>, <<15795, 55387>>,
      <<28845, 54638>>, <<44778, 23483>>, <<7997, 58822>>, <<39976, 48555>>, <<32451, 59900>>, <<54604, 17159>>,
      <<2253, 44974>>, <<11361, 40994>>, <<59593, 14541>>, <<25628, 35920>>, <<16959, 26531>>, <<11943, 1585>>,
      <<43419, 3943>>, <<49503, 23939>>, <<20428, 19457>>, <<27863, 1021>>, <<34083, 11653>>, <<13627, 43573>>,
      <<35829, 13417>>, <<37204, 52995>>, <<12114, 40757>>, <<2052, 9692>>, <<63542, 45758>>, <<55199, 63889>>,
      <<50799, 6873>>, <<29475, 5675>>, <<61571, 161>>, <<25896, 37065>>, <<58643, 26557>>, <<60729, 33763>>,
      <<39183, 63757>>, <<47662, 32606>>, <<60415, 62255>>, <<21400, 11534>>, <<5799, 29127>>, <<37384, 40397>>,
      <<12843, 61142>>, <<34133, 25851>>, <<2964, 1016>>, <<62991, 24253>>, <<21320, 55591>>, <<55347, 24276>>,
      <<25472, 23247>>, <<48976, 24300>>, <<17783, 8529>>, <<35369, 17262>>, <<54312, 9268>>, <<38453, 21271>>,
      <<23380, 12185>>, <<63258, 63704>>, <<18411, 21243>>, <<39782, 39099>>, <<35566, 8571>>, <<18087, 57836>>,
      <<9235, 39976>>, <<19416, 38044>>, <<52572, 51214>>, <<10830, 61228>>, <<4885, 49216>>, <<1024, 48984>>,
      <<64676, 40774>>, <<27748, 2568>>, <<50609, 54615>>, <<25878, 62592>>, <<13023, 2027>>, <<19234, 2695>>,
      <<361, 58839>>, <<922, 48190>>, <<53442, 5258>>, <<13031, 22002>>, <<46324, 39504>>, <<46618, 33159>>,
      <<47776, 13986>>, <<51784, 61858>>, <<50545, 63776>>, <<39712, 12666>>, <<4852, 38660>>, <<60706, 3561>>,
      <<23492, 26854>>, <<42668, 64505>>, <<7593, 38952>>, <<59962, 52251>>, <<56564, 22662>>, <<55708, 8392>>,
      <<40848, 30535>>, <<29455, 13067>>, <<21685, 48033>>, <<6252, 52256>>, <<4165, 23599>>, <<24301, 61942>>,
      <<20380, 35222>>, <<43833, 11837>>, <<21311, 14039>>, <<43641, 58148>>, <<47815, 30818>>, <<38751, 19115>>,
      <<41782, 63335>>, <<18004, 10965>>, <<58144, 24538>>, <<36781, 42530>>, <<30947, 5056>>, <<25095, 32482>>,
      <<7837, 47716>>, <<63682, 8110>>, <<46743, 13773>>, <<55634, 27266>>, <<49858, 52992>>, <<47299, 17412>>,
      <<36783, 56537>>, <<15465, 33270>>, <<50526, 6910>>, <<16781, 45453>>, <<32361, 25446>>, <<2649, 56090>>,
      <<34257, 53640>>, <<46574, 206>>, <<28019, 21518>>, <<7267, 22361>>, <<1665, 56873>>, <<28792, 23419>>,
      <<7070, 50636>>, <<13219, 57010>>, <<2059, 48702>>, <<58704, 50015>>, <<41707, 51942>>, <<31153, 56560>>,
      <<20601, 41523>>, <<36914, 54268>>, <<33329, 45151>>, <<45581, 22403>>, <<59478, 18141>>, <<9131, 14820>>,
      <<16337, 40342>>, <<39611, 6374>>, <<26894, 56044>>, <<35379, 1678>>, <<49515, 52394>>, <<13307, 53788>>,
      <<14994, 33827>>, <<61790, 55820>>, <<5044, 62623>>, <<39247, 16198>>, <<18989, 9914>>, <<45533, 27890>>,
      <<10565, 52309>>, <<57702, 22299>>, <<60928, 43585>>, <<40917, 43689>>, <<52960, 64044>>, <<19374, 42557>>,
      <<41510, 49080>>, <<6913, 44020>>, <<57112, 2693>>, <<29919, 29467>>, <<52669, 29723>>, <<14315, 46699>>,
      <<12227, 3627>>, <<27296, 25939>>, <<58494, 48925>>, <<57886, 42941>>, <<35346, 21834>>, <<21256, 18047>>,
      <<52916, 26105>>, <<8001, 10230>>, <<58726, 15707>>, <<23350, 21976>>, <<20840, 44262>>, <<59429, 59581>>,
      <<7212, 23776>>, <<17834, 30080>>, <<14937, 62840>>, <<42447, 1306>>, <<27990, 61373>>, <<34, 6776>>,
      <<53609, 27251>>, <<23105, 62412>>, <<56408, 55016>>, <<19974, 9474>>, <<455, 40294>>, <<10790, 58053>>,
      <<33472, 21959>>, <<35002, 5530>>, <<27355, 29320>>, <<31773, 53565>>, <<14556, 3748>>, <<45379, 31968>>,
      <<7855, 32562>>, <<17656, 13545>>, <<22125, 62123>>, <<15999, 663>>, <<61794, 34766>>, <<11029, 7994>>,
      <<21181, 28021>>, <<14336, 61087>>, <<33999, 30303>>, <<36575, 50647>>, <<46073, 3304>>, <<26465, 52915>>,
      <<23830, 54384>>, <<4252, 51005>>, <<63686, 46576>>, <<16640, 39353>>, <<63074, 62003>>, <<16179, 17675>>,
      <<16500, 52733>>, <<45632, 65318>>, <<32587, 44417>>, <<46679, 23938>>, <<19718, 23664>>, <<9705, 1636>>,
      <<18667, 20080>>, <<65387, 60343>>, <<2417, 27728>>, <<17483, 49850>>, <<39948, 26736>>, <<64003, 28673>>,
      <<32943, 37505>>, <<26937, 47323>>, <<3373, 46645>>, <<2166, 854>>, <<18261, 24548>>, <<22614, 38623>>,
      <<59524, 7392>>, <<41572, 55680>>, <<15699, 60818>>, <<44610, 46717>>, <<9495, 54401>>, <<34795, 21556>>,
      <<32076, 50859>>, <<29345, 60121>>, <<64595, 38559>>, <<36234, 26309>>, <<15863, 21919>>, <<38842, 63734>>,
      <<44049, 4931>>, <<5298, 52662>>, <<49913, 32970>>, <<24225, 44215>>, <<15573, 53370>>, <<15870, 12688>>,
      <<47724, 25342>>, <<52634, 37157>>, <<24103, 2327>>, <<30821, 40772>>, <<41438, 52083>>, <<64449, 40545>>,
      <<41519, 197>>, <<26137, 23509>>, <<35112, 34698>>, <<53505, 44542>>, <<5917, 15087>>, <<52320, 22671>>,
      <<54742, 25184>>, <<9877, 27848>>, <<21022, 42107>>, <<33305, 20666>>, <<12223, 44357>>, <<45600, 51663>>,
      <<2672, 15708>>, <<56253, 26370>>, <<38724, 49811>>, <<21362, 2811>>, <<44404, 56250>>, <<14433, 47011>>,
      <<1087, 6546>>, <<46605, 58713>>, <<33560, 34754>>, <<53051, 30206>>, <<14843, 41106>>, <<22850, 11411>>,
      <<42282, 2911>>, <<6303, 1734>>, <<11427, 18227>>, <<61638, 8680>>, <<45281, 19360>>, <<26055, 18343>>,
      <<25345, 5759>>, <<33931, 23078>>, <<61389, 35153>>, <<54900, 11111>>, <<9012, 37504>>, <<44282, 1802>>,
      <<22352, 8155>>, <<48183, 8120>>, <<7436, 39384>>, <<13701, 47025>>, <<60600, 47254>>, <<35484, 21918>>,
      <<57497, 20445>>, <<45598, 60713>>, <<16904, 30306>>, <<14978, 16646>>, <<43252, 46843>>, <<11465, 55439>>,
      <<53557, 31065>>, <<64367, 25199>>, <<36385, 41976>>, <<33858, 16371>>, <<34711, 11835>>, <<17093, 45936>>,
      <<15850, 2049>>, <<65290, 31616>>, <<6101, 38191>>, <<63269, 47357>>, <<58799, 61067>>, <<36588, 20932>>,
      <<59009, 52260>>, <<57844, 29855>>, <<41490, 61434>>, <<12367, 7158>>, <<22218, 43016>>, <<18276, 7400>>,
      <<22885, 52322>>, <<45898, 42642>>, <<47576, 15151>>, <<55486, 51407>>, <<58793, 1154>>, <<56120, 4499>>,
      <<58136, 6295>>, <<26509, 55349>>, <<51109, 60535>>, <<58180, 59040>>, <<42076, 12183>>, <<55766, 29299>>,
      <<5514, 12874>>, <<61317, 50800>>, <<10592, 32711>>, <<51468, 5539>>, <<58887, 42405>>, <<43842, 53351>>,
      <<39742, 61267>>, <<38055, 57597>>, <<602, 48354>>, <<24397, 60527>>, <<6650, 2557>>, <<61612, 38360>>,
      <<43483, 16482>>, <<63810, 2200>>, <<331, 46940>>, <<18607, 2961>>, <<10538, 46975>>, <<20012, 21357>>,
      <<35961, 53585>>, <<31825, 11969>>, <<45344, 2869>>, <<29387, 60578>>, <<42726, 61135>>, <<65172, 50108>>,
      <<14697, 46760>>, <<11529, 28643>>, <<46673, 24736>>, <<1184, 38467>>, <<15548, 23328>>, <<32367, 53645>>,
      <<21325, 25876>>, <<11719, 21295>>, <<48922, 3987>>, <<24016, 58871>>, <<42574, 22399>>, <<48769, 62855>>,
      <<55654, 46214>>, <<47247, 33986>>, <<43097, 20880>>, <<20189, 4735>>, <<37244, 44064>>, <<35555, 60079>>,
      <<6139, 4555>>, <<33345, 41914>>, <<24098, 40818>>, <<41702, 45525>>, <<17380, 19830>>, <<16414, 17429>>,
      <<15990, 6893>>, <<38657, 50845>>, <<63767, 14373>>, <<64152, 47333>>, <<25762, 3436>>, <<31899, 8754>>,
      <<58461, 10677>>, <<59382, 5895>>, <<41362, 19738>>, <<28468, 30746>>, <<52088, 49377>>, <<22942, 48404>>,
      <<32940, 54045>>, <<42277, 32352>>, <<37807, 63771>>, <<43838, 39790>>, <<32277, 41919>>, <<56634, 5600>>,
      <<12795, 29124>>, <<15085, 27643>>, <<47346, 40764>>, <<32715, 9007>>, <<18400, 45714>>, <<37486, 56835>>,
      <<1593, 37410>>, <<50367, 62655>>, <<42301, 44080>>, <<2857, 40447>>, <<11607, 8208>>, <<65178, 56491>>,
      <<61633, 58587>>, <<30798, 18589>>, <<62516, 43484>>, <<18321, 17453>>, <<59956, 36212>>, <<57900, 43525>>,
      <<24258, 47202>>, <<49002, 32635>>, <<1012, 63208>>, <<62460, 33828>>, <<60838, 18711>>, <<21676, 3420>>,
      <<28061, 31216>>, <<36226, 301>>, <<63350, 45236>>, <<37505, 49758>>, <<63151, 52322>>, <<64247, 699>>,
      <<55902, 54240>>, <<4937, 58483>>, <<19297, 190>>, <<20034, 10492>>, <<25237, 50132>>, <<12511, 35743>>,
      <<55780, 6102>>, <<17594, 50336>>, <<20769, 52479>>, <<31803, 19778>>, <<11107, 57471>>, <<24424, 26641>>,
      <<36490, 34584>>, <<25866, 32745>>, <<61351, 55006>>, <<55326, 23093>>, <<45615, 569>>, <<60949, 38210>>,
      <<37359, 34663>>, <<4614, 51885>>, <<6368, 36631>>, <<13691, 45681>>, <<40305, 7455>>, <<43984, 4014>>,
      <<64884, 11093>>, <<23504, 18070>>, <<9180, 35777>>, <<16656, 56958>>, <<33969, 16538>>, <<19352, 10729>>,
      <<57499, 34177>>, <<21138, 45017>>, <<48547, 784>>, <<55618, 27751>>, <<45679, 40864>>, <<8953, 40328>>,
      <<46037, 65322>>, <<46459, 12533>>, <<23559, 40111>>, <<36229, 39974>>, <<19240, 54748>>, <<19432, 5801>>,
      <<53042, 19190>>, <<27510, 49689>>, <<53091, 38754>>, <<16790, 50993>>, <<56824, 29592>>, <<40076, 10647>>,
      <<59850, 8716>>, <<5347, 23355>>, <<33511, 22009>>, <<339, 52102>>, <<32867, 24376>>, <<41149, 45091>>,
      <<52317, 4780>>, <<12731, 61459>>, <<42596, 2368>>, <<4649, 12039>>, <<46004, 6655>>, <<26003, 40941>>,
      <<52153, 4495>>, <<3327, 10893>>, <<58327, 25547>>, <<58105, 22386>>, <<22150, 55766>>, <<1809, 58510>>,
      <<24614, 13403>>, <<37936, 32097>>, <<6159, 13121>>, <<28735, 55071>>, <<37898, 10966>>, <<44041, 59326>>,
      <<2355, 33621>>, <<21505, 53298>>, <<30513, 28312>>, <<10160, 52921>>, <<35562, 49726>>, <<64345, 60605>>,
      <<18778, 50300>>, <<54980, 22677>>, <<38720, 55609>>, <<56387, 31289>>, <<1998, 56661>>, <<16400, 31024>>,
      <<2447, 42675>>, <<2545, 4777>>, <<53909, 62277>>, <<19874, 53006>>, <<23605, 29749>>, <<35198, 15338>>,
      <<8327, 2491>>, <<21407, 27236>>, <<34225, 48096>>, <<54255, 14599>>, <<50462, 19508>>, <<17795, 54843>>,
      <<14144, 3051>>, <<63258, 48747>>, <<40821, 49156>>, <<29967, 21606>>, <<5593, 21699>>, <<55182, 54021>>,
      <<3387, 876>>, <<12738, 58335>>, <<34822, 56179>>, <<26958, 32093>>, <<35431, 4142>>, <<45843, 15202>>,
      <<41774, 39734>>, <<9067, 7079>>, <<47585, 7987>>, <<8699, 39567>>, <<63953, 28940>>, <<63539, 37233>>,
      <<33836, 17019>>, <<46831, 46185>>, <<21165, 18077>>, <<2691, 26258>>, <<52113, 21136>>, <<26137, 8311>>,
      <<17749, 17214>>, <<28411, 14098>>, <<28768, 28251>>, <<48761, 37945>>, <<5141, 47030>>, <<16440, 25945>>,
      <<1661, 25316>>, <<12080, 32217>>, <<63088, 8308>>, <<5300, 5949>>, <<54786, 51990>>, <<28070, 1150>>,
      <<45611, 23944>>, <<45121, 34699>>, <<26801, 9204>>, <<3813, 50816>>, <<11357, 1081>>, <<59979, 29305>>,
      <<10252, 16896>>, <<28989, 65262>>, <<16399, 60193>>, <<15714, 46175>>, <<35994, 7805>>, <<6152, 5237>>,
      <<46831, 49711>>, <<11984, 20056>>, <<43266, 45543>>, <<61250, 56556>>, <<18345, 49012>>, <<41829, 45952>>,
      <<62578, 3343>>, <<33862, 13500>>, <<48358, 53222>>, <<43064, 29375>>, <<36330, 9662>>, <<28552, 16964>>,
      <<40089, 47893>>, <<47843, 56156>>, <<27498, 59638>>, <<3127, 8130>>, <<16235, 19531>>, <<37095, 53401>>,
      <<23329, 1679>>, <<10397, 3506>>, <<49666, 13284>>, <<7875, 7253>>, <<943, 19128>>, <<22405, 27932>>,
      <<7606, 61389>>, <<6016, 9435>>, <<3014, 54340>>, <<6170, 44078>>, <<2669, 13296>>, <<20408, 51293>>,
      <<56063, 30445>>, <<64193, 13245>>, <<46114, 60403>>, <<11490, 29124>>, <<31075, 29899>>, <<1124, 43919>>,
      <<6411, 43225>>, <<50027, 55769>>, <<32218, 35247>>, <<52881, 55636>>, <<31029, 29222>>, <<22695, 26211>>,
      <<11350, 62752>>, <<30452, 56573>>, <<28432, 59101>>, <<42583, 37220>>, <<26116, 26646>>, <<3149, 38649>>,
      <<40360, 23049>>, <<62203, 14069>>, <<41621, 32580>>, <<58109, 31843>>, <<2969, 2849>>, <<17097, 60595>>,
      <<24550, 40158>>, <<1002, 65417>>, <<41016, 23289>>, <<61173, 44690>>, <<32973, 35257>>, <<32836, 9823>>,
      <<56130, 60160>>, <<35348, 41975>>, <<43168, 9540>>, <<44824, 16364>>, <<10678, 4611>>, <<40360, 27663>>,
      <<4624, 51991>>, <<61858, 57679>>, <<42101, 38646>>, <<61882, 30977>>, <<1737, 29168>>, <<56832, 49115>>,
      <<38389, 25471>>, <<41707, 22687>>, <<61618, 60890>>, <<52491, 851>>, <<37714, 18071>>, <<44378, 59275>>,
      <<25439, 6833>>, <<37576, 11938>>, <<42158, 35195>>, <<8421, 26144>>, <<30032, 4000>>, <<53163, 5052>>,
      <<35757, 35506>>, <<53781, 28074>>, <<61699, 54884>>, <<41021, 38155>>, <<25303, 40770>>, <<53767, 32320>>,
      <<62992, 38304>>, <<42695, 46247>>, <<59333, 3913>>, <<13545, 17450>>, <<12831, 24107>>, <<17954, 20764>>,
      <<4545, 43404>>, <<14063, 20491>>, <<6604, 38494>>, <<24724, 3373>>, <<1194, 12161>>, <<2553, 31996>>,
      <<6189, 27122>>, <<40517, 58097>>, <<44761, 34850>>, <<22056, 27350>>, <<4665, 27472>>, <<42973, 28761>>,
      <<20904, 25351>>, <<25257, 23132>>, <<55369, 49049>>, <<44670, 15305>>, <<1525, 9817>>, <<22323, 11261>>,
      <<53377, 417>>, <<17084, 57458>>, <<18471, 41576>>, <<32508, 20358>>, <<7744, 3267>>, <<45409, 17209>>,
      <<45661, 24052>>, <<22828, 38513>>, <<41218, 26092>>, <<61384, 11338>>, <<57506, 412>>, <<2568, 7543>>,
      <<48173, 40355>>, <<27390, 33496>>, <<52656, 60692>>, <<63411, 23548>>, <<18483, 27384>>, <<35911, 58019>>,
      <<11628, 44425>>, <<27752, 38756>>, <<49192, 18888>>, <<37258, 35735>>, <<52876, 47295>>, <<37743, 51938>>,
      <<64913, 48816>>, <<47949, 17506>>, <<27041, 20463>>, <<8368, 17955>>, <<24380, 37841>>, <<16385, 5104>>,
      <<50882, 65510>>, <<38046, 34911>>, <<22334, 59031>>, <<56827, 23190>>, <<60998, 7357>>, <<36822, 32479>>,
      <<56256, 61476>>, <<15636, 44811>>, <<28114, 36208>>, <<44554, 20150>>, <<49209, 5644>>, <<48490, 43286>>,
      <<49449, 47320>>, <<15613, 2914>>, <<6758, 21352>>, <<24754, 55069>>, <<59149, 46352>>, <<35017, 44912>>,
      <<33112, 14397>>, <<32542, 41555>>, <<54162, 46959>>, <<25534, 728>>, <<20974, 50517>>, <<19505, 53644>>,
      <<58689, 698>>, <<6552, 39954>>, <<25506, 47280>>, <<3505, 13923>>, <<710, 16779>>, <<62818, 63932>>,
      <<59335, 7400>>, <<55518, 24466>>, <<5982, 36939>>, <<23259, 4360>>, <<20926, 35270>>, <<62704, 59163>>,
      <<62263, 17101>>, <<44352, 51934>>, <<62298, 64895>>, <<31622, 32307>>, <<37580, 54098>>, <<32310, 60921>>,
      <<41408, 5486>>, <<5458, 8335>>, <<29389, 21364>>, <<6009, 60484>>, <<19215, 56418>>, <<39481, 37259>>,
      <<21539, 23576>>, <<36287, 31667>>, <<44074, 11130>>, <<13941, 21972>>, <<49307, 40419>>, <<62009, 52788>>,
      <<51876, 60566>>, <<51203, 1167>>, <<51748, 27192>>, <<7436, 1062>>, <<5977, 18540>>, <<61009, 24244>>,
      <<32402, 21545>>, <<63848, 21689>>, <<3772, 11174>>, <<65269, 22925>>, <<36013, 60638>>, <<3661, 37497>>,
      <<28936, 9348>>, <<48302, 23714>>, <<58176, 38102>>, <<35777, 8924>>, <<22997, 37098>>, <<46257, 24394>>,
      <<7672, 6801>>, <<63481, 37614>>, <<9371, 6731>>, <<45090, 48136>>, <<49906, 23625>>, <<54851, 17337>>,
      <<40515, 35307>>, <<56811, 7056>>, <<6627, 11516>>, <<54950, 44261>>, <<5512, 1542>>, <<27924, 21677>>,
      <<45938, 46732>>, <<14586, 50343>>, <<4768, 39081>>, <<25994, 62856>>, <<53861, 27569>>, <<58451, 23322>>,
      <<46284, 19065>>, <<9607, 58561>>, <<5331, 17924>>, <<33641, 22556>>, <<5559, 60580>>, <<15284, 54693>>,
      <<64660, 26962>>, <<38096, 28295>>, <<24528, 13807>>, <<56566, 42348>>, <<24290, 26432>>, <<57695, 17749>>,
      <<53267, 41459>>, <<15511, 26256>>, <<62078, 57854>>, <<59486, 40262>>, <<64618, 37080>>, <<38790, 1324>>,
      <<49373, 25731>>, <<22951, 59171>>, <<24658, 35909>>, <<46411, 23803>>, <<5472, 19870>>, <<31566, 34578>>,
      <<50931, 6588>>, <<24771, 52075>>, <<36595, 38069>>, <<46208, 26790>>, <<27801, 53338>>, <<16300, 25289>>,
      <<59398, 55129>>, <<21643, 28178>>, <<7287, 28710>>, <<28472, 15485>>, <<32284, 44482>>, <<16625, 20652>>,
      <<744, 4748>>, <<26555, 21233>>, <<30714, 9435>>, <<37452, 3709>>, <<3689, 58425>>, <<48560, 30355>>,
      <<7786, 55771>>, <<50278, 57799>>, <<7702, 13116>>, <<53922, 25470>>, <<42546, 42344>>, <<48772, 42918>>,
      <<48892, 52224>>, <<44632, 39298>>, <<38231, 42956>>, <<15565, 14683>>, <<63056, 61629>>, <<26229, 504>>,
      <<24567, 33982>>, <<31307, 34299>>, <<18724, 28016>>, <<5432, 23960>>, <<56924, 33591>>, <<34627, 17312>>,
      <<14653, 37797>>, <<28595, 46196>>, <<63125, 49285>>, <<52567, 2105>>, <<796, 36395>>, <<64087, 45740>>,
      <<63561, 64159>>, <<36438, 22700>>, <<2828, 34620>>, <<21147, 37678>>, <<58401, 62612>>, <<2844, 20559>>,
      <<34583, 27509>>, <<60597, 27860>>, <<65074, 61642>>, <<60235, 11003>>, <<4836, 21732>>, <<16579, 63139>>,
      <<36297, 25826>>, <<45574, 30354>>, <<63524, 13843>>, <<4943, 44472>>, <<34281, 48529>>, <<10893, 6190>>,
      <<41248, 17640>>, <<14208, 52528>>, <<45596, 38413>>, <<19299, 62606>>, <<29788, 52638>>, <<65262, 52736>>,
      <<41127, 42356>>, <<45673, 44597>>, <<38293, 40821>>, <<25179, 3330>>, <<59058, 19087>>, <<48306, 41430>>,
      <<2978, 24504>>, <<59982, 7114>>, <<18413, 13323>>, <<62829, 34121>>, <<62286, 10975>>, <<3792, 11023>>,
      <<58344, 21447>>, <<25855, 24933>>, <<29861, 60363>>, <<6996, 23959>>, <<40641, 667>>, <<21997, 53620>>,
      <<18178, 29703>>, <<11120, 9337>>, <<12328, 46427>>, <<42391, 55971>>, <<30388, 61529>>, <<25445, 36487>>,
      <<23157, 19129>>, <<15033, 40251>>, <<38250, 31921>>, <<17428, 33307>>, <<5094, 27355>>, <<23615, 37732>>,
      <<63857, 61480>>, <<17036, 4835>>, <<64632, 20159>>, <<29703, 38810>>, <<45754, 47605>>, <<2117, 56254>>,
      <<35133, 40080>>, <<18334, 38088>>, <<20285, 13216>>, <<26948, 55284>>, <<53332, 57043>>, <<39503, 59852>>,
      <<44874, 35547>>, <<17757, 31471>>, <<10657, 17308>>, <<8728, 27532>>, <<59698, 34349>>, <<4993, 56866>>,
      <<53905, 52476>>, <<61638, 45445>>, <<62246, 5713>>, <<27304, 56178>>, <<47560, 49407>>, <<38087, 4804>>,
      <<40200, 50990>>, <<60239, 10136>>, <<27409, 63937>>, <<5423, 9>>, <<61127, 19255>>, <<57452, 58141>>,
      <<56758, 23793>>, <<36148, 56570>>, <<2963, 29548>>, <<10802, 37892>>, <<1727, 64630>>, <<26952, 1015>>,
      <<24671, 59168>>, <<50960, 61813>>, <<53120, 27712>>, <<31481, 34961>>, <<64702, 8415>>, <<64571, 46318>>,
      <<9857, 47280>>, <<24689, 63242>>, <<38936, 62292>>, <<49124, 23833>>, <<24962, 4158>>, <<25754, 62680>>,
      <<63564, 20309>>, <<54340, 6970>>, <<55189, 6938>>, <<37295, 21168>>, <<54940, 46540>>, <<4162, 20384>>,
      <<30716, 18017>>, <<2413, 10344>>, <<27185, 40034>>, <<8772, 8702>>, <<17918, 384>>, <<896, 404>>,
      <<3694, 40943>>, <<4938, 47926>>, <<56670, 29189>>, <<45332, 12763>>, <<53274, 18384>>, <<35018, 60100>>,
      <<65517, 32606>>, <<49146, 9860>>, <<65315, 38757>>, <<59845, 15106>>, <<36400, 50612>>, <<38348, 23574>>,
      <<50396, 23524>>, <<47587, 3636>>, <<61916, 10916>>, <<49616, 4809>>, <<55682, 32201>>, <<24762, 53330>>,
      <<16210, 13456>>, <<15799, 48212>>, <<29526, 56397>>, <<13437, 55752>>, <<8464, 38765>>, <<16478, 34816>>,
      <<62524, 45106>>, <<18004, 53932>>, <<39726, 17100>>, <<13580, 57091>>, <<14984, 21949>>, <<57555, 4544>>,
      <<44020, 37744>>, <<49610, 45543>>, <<40509, 42783>>, <<3073, 26657>>, <<23472, 36187>>, <<17607, 47198>>,
      <<7442, 7239>>, <<1453, 58918>>, <<44012, 14489>>, <<32647, 49401>>, <<34098, 58017>>, <<31208, 61877>>,
      <<50614, 43125>>, <<54484, 49922>>, <<34089, 28538>>, <<20170, 32049>>, <<55848, 37131>>, <<53502, 42944>>,
      <<36169, 50229>>, <<63437, 8427>>, <<36761, 41348>>, <<5793, 60381>>, <<57452, 24285>>, <<51892, 37626>>,
      <<26442, 42808>>, <<38663, 22928>>, <<8782, 53871>>, <<31460, 19198>>, <<1886, 19758>>, <<27560, 15254>>,
      <<49488, 44238>>, <<51424, 1252>>, <<40652, 39764>>, <<41901, 12173>>, <<46142, 37441>>, <<52759, 26698>>,
      <<13956, 53682>>, <<59188, 59494>>, <<8937, 15781>>, <<40452, 65215>>, <<953, 13051>>, <<64255, 39649>>,
      <<22976, 6949>>, <<39851, 42289>>, <<38660, 55393>>, <<41723, 8017>>, <<25706, 6941>>, <<36360, 25934>>,
      <<28670, 23386>>, <<5963, 59826>>, <<59254, 61886>>, <<47605, 10209>>, <<22823, 17715>>, <<35877, 28920>>,
      <<33684, 53413>>, <<29550, 56800>>, <<51357, 31703>>, <<59668, 42318>>, <<25987, 54267>>, <<19527, 4637>>,
      <<40769, 4854>>, <<34314, 52329>>, <<56515, 56882>>, <<45720, 43088>>, <<62227, 51332>>, <<52197, 37660>>,
      <<9638, 39811>>, <<30103, 49289>>, <<60724, 55479>>, <<55187, 19856>>, <<32251, 21833>>, <<50391, 51984>>,
      <<16924, 19963>>, <<4340, 55123>>, <<30089, 60375>>, <<3005, 36932>>, <<64227, 27169>>, <<40685, 7941>>,
      <<32284, 14388>>, <<22768, 5569>>, <<21545, 4300>>, <<13705, 39037>>, <<41510, 36586>>, <<37987, 61482>>,
      <<15738, 12015>>, <<22384, 45002>>, <<4971, 51058>>, <<35210, 6254>>, <<8446, 17144>>, <<30154, 24214>>,
      <<8391, 40118>>, <<38323, 15183>>, <<9955, 6238>>, <<26234, 6090>>, <<9098, 11637>>, <<45722, 22415>>,
      <<42000, 24071>>, <<11800, 58243>>, <<11919, 45415>>, <<45645, 60291>>, <<22653, 42679>>, <<26978, 41240>>,
      <<58771, 60610>>, <<57299, 18271>>, <<31061, 36034>>, <<33766, 33434>>, <<43749, 4188>>, <<63773, 49823>>,
      <<11293, 10161>>, <<39448, 28732>>, <<12601, 55929>>, <<14670, 11314>>, <<2678, 23954>>, <<53856, 57108>>,
      <<11071, 21508>>, <<22615, 21969>>, <<18257, 45659>>, <<22781, 37545>>, <<11600, 36668>>, <<2084, 23061>>,
      <<5813, 13716>>, <<35960, 39749>>, <<7905, 65024>>, <<35023, 64132>>, <<30197, 39144>>, <<23330, 16907>>,
      <<13522, 18777>>, <<58603, 27693>>, <<23872, 51745>>, <<8437, 42928>>, <<32991, 62541>>, <<21633, 26329>>,
      <<45245, 46892>>, <<21075, 16282>>, <<2576, 23624>>, <<6048, 23321>>, <<52390, 10488>>, <<31532, 22574>>,
      <<41150, 5240>>, <<45074, 43221>>, <<5358, 10478>>, <<33531, 62519>>, <<57250, 55645>>, <<10287, 45162>>,
      <<60350, 19262>>, <<24725, 53295>>, <<4002, 52796>>, <<170, 4432>>, <<18145, 29721>>, <<56904, 64291>>,
      <<52835, 13568>>, <<5538, 59399>>, <<49037, 62064>>, <<39143, 14178>>, <<12092, 50428>>, <<64635, 22195>>,
      <<13719, 60110>>, <<35166, 302>>, <<24279, 17022>>, <<60558, 55>>, <<31753, 45781>>, <<15474, 8717>>,
      <<40517, 61913>>, <<49804, 28699>>, <<24177, 8150>>, <<34817, 2125>>, <<30312, 44247>>, <<47219, 48513>>,
      <<48986, 16748>>, <<4085, 39577>>, <<2404, 4621>>, <<9682, 15034>>, <<16543, 46391>>, <<8723, 62322>>,
      <<46750, 5126>>, <<45034, 5122>>, <<58668, 18030>>, <<55341, 17302>>, <<33533, 19181>>, <<49126, 55658>>,
      <<34872, 38638>>, <<1997, 1531>>, <<7023, 40940>>, <<56833, 52497>>, <<29321, 40441>>, <<23209, 23333>>,
      <<34905, 39650>>, <<26028, 34674>>, <<15890, 35854>>, <<6872, 46271>>, <<17645, 8152>>, <<48326, 38518>>,
      <<24725, 45540>>, <<11946, 10267>>, <<1315, 25289>>, <<36960, 1062>>, <<21107, 51128>>, <<55096, 50448>>,
      <<13857, 29926>>, <<5846, 6229>>, <<21462, 56793>>, <<35083, 49277>>, <<7848, 47915>>, <<15284, 4632>>,
      <<58361, 39056>>, <<22474, 3596>>, <<38901, 44243>>, <<31062, 6168>>, <<44505, 42563>>, <<23272, 7561>>,
      <<51719, 8258>>, <<42521, 16616>>, <<32665, 59500>>, <<31429, 58513>>, <<5696, 26734>>, <<38286, 6371>>,
      <<35199, 53358>>, <<48288, 26069>>, <<38459, 14369>>, <<36552, 12910>>, <<48853, 7943>>, <<38439, 12199>>,
      <<28289, 15728>>, <<36992, 23275>>, <<8361, 6738>>, <<24823, 15913>>, <<18597, 35240>>, <<22114, 60004>>,
      <<23794, 62981>>, <<58959, 19123>>, <<42330, 54553>>, <<39816, 48447>>, <<37406, 34529>>, <<16013, 60858>>,
      <<23337, 10167>>, <<32653, 10554>>, <<64652, 17260>>, <<21649, 47045>>, <<39700, 3812>>, <<61190, 28024>>,
      <<15546, 58656>>, <<493, 50612>>, <<6670, 27285>>, <<14767, 26900>>, <<10017, 50885>>, <<23944, 1605>>,
      <<16119, 5622>>, <<31969, 6767>>, <<10530, 27139>>, <<55759, 11613>>, <<12226, 56138>>, <<5759, 52669>>,
      <<18683, 65341>>, <<52813, 10589>>, <<11362, 13918>>, <<3647, 20119>>, <<58770, 27446>>, <<55201, 58504>>,
      <<5258, 13046>>, <<3383, 64386>>, <<34374, 24818>>, <<1195, 35358>>, <<26895, 50215>>, <<45676, 4324>>,
      <<64381, 10787>>, <<65356, 9111>>, <<7342, 38110>>, <<58760, 16389>>, <<26073, 56641>>, <<37748, 41427>>,
      <<63535, 14043>>, <<60122, 28746>>, <<56721, 57347>>, <<347, 22350>>, <<53547, 41605>>, <<63902, 117>>,
      <<16901, 60272>>, <<32161, 46685>>, <<11199, 18935>>, <<47375, 47077>>, <<43820, 13234>>, <<53795, 64061>>,
      <<60907, 38328>>, <<47084, 53441>>, <<36488, 846>>, <<35064, 10954>>, <<37461, 13703>>, <<31235, 48153>>,
      <<18348, 46514>>, <<54957, 22700>>, <<50429, 32043>>, <<13439, 63108>>, <<12258, 6469>>, <<63438, 30105>>>>

\* the output at position i shifted right by n bits, n < 16
Shifted32(i, n) == Stream[i][1] * 2^(16 - n) + (Stream[i][2] \div 2^n)

\* random_double on the outputs 2i - 1 and 2i:
\* ((a >> 5)*67108864.0 + (b >> 6))/9007199254740992.0
RandomDouble(i) ==
    FDiv(FAdd(FMul(R(Shifted32(2 * i - 1, 5)), R(67108864)), R(Shifted32(2 * i, 6))),
         Dbl(<<1>>, 53))

\* the doubles of the stream, in order
Doubles == Array([i \in 1..(Len(Stream) \div 2) |-> RandomDouble(i)])

Seeded == [pos |-> 0, has_gauss |-> FALSE, gauss |-> R(0)]

\* 2.0*random_double - 1.0
Centered(u) == FSub(FMul(R(2), u), R(1))

\* the rejection loop of legacy_gauss after i doubles: the first pair of
\* doubles with 0 < r2 < 1
RECURSIVE PolarFrom(_)
PolarCheck(x1, x2, r2, i) ==
    IF FLe(R(1), r2) \/ FEq(r2, R(0)) THEN PolarFrom(i)
    ELSE [x1 |-> x1, x2 |-> x2, r2 |-> r2, pos |-> i]

PolarTry(x1, x2, i) == PolarCheck(x1, x2, FAdd(FMul(x1, x1), FMul(x2, x2)), i)

PolarFrom(i) == PolarTry(Centered(Doubles[i + 1]), Centered(Doubles[i + 2]), i + 2)

\* f*x2 is returned and f*x1 kept, f = sqrt(-2.0*log(r2)/r2)
GaussBy(t, f) ==
    [val |-> FMul(f, t.x2),
     rng |-> [pos |-> t.pos, has_gauss |-> TRUE, gauss |-> FMul(f, t.x1)]]

GaussOf(t) == GaussBy(t, FSqrt(FDiv(FMul(FNeg(R(2)), Log(t.r2)), t.r2)))

\* the outcome of legacy_gauss with nothing kept, after 0, 2, 4, ... doubles
Gauss == Array([i \in 1..(Len(Doubles) \div 2) |-> GaussOf(PolarFrom(2 * (i - 1)))])

\* legacy_gauss: the kept sample if there is one, a new pair otherwise
LegacyGauss(st) ==
    IF st.has_gauss
    THEN [val |-> st.gauss, rng |-> [pos |-> st.pos, has_gauss |-> FALSE, gauss |-> R(0)]]
    ELSE IF st.pos % 2 = 0 THEN Gauss[(st.pos \div 2) + 1]
    ELSE GaussOf(PolarFrom(st.pos))

\* np.random.randn of n entries, filled in C order by successive calls of
\* legacy_gauss, and the state it leaves: the first half, then the rest
RECURSIVE Randn(_, _)
RandnJoin(a, b) == [val |-> a.val \o b.val, rng |-> b.rng]

RandnThen(a, n) == RandnJoin(a, Randn(a.rng, n))

RandnOne(g) == [val |-> <<g.val>>, rng |-> g.rng]

Randn(st, n) ==
    IF n = 0 THEN [val |-> <<>>, rng |-> st]
    ELSE IF n = 1 THEN RandnOne(LegacyGauss(st))
    ELSE RandnThen(Randn(st, n \div 2), n - (n \div 2))

\* np.random.rand of n entries, filled in C order, and the state it leaves
Rand(st, n) ==
    [val |-> Array([i \in 1..n |-> Doubles[st.pos + i]]),
     rng |-> [st EXCEPT !.pos = @ + n]]

\* a + 1j*b, entry by entry
Complexes(re, im) ==
    Array([i \in 1..Len(re) |-> CAdd(Cplx(re[i]), CMul(ImagUnit, Cplx(im[i])))])

ComplexBoth(lo, re, im) ==
    [val |-> Complexes(re.val, im.val), lo |-> lo, hi |-> im.rng.pos, rng |-> im.rng]

ComplexNormalAfter(st, re, n) == ComplexBoth(st.pos, re, Randn(re.rng, n))

\* randn(shape) + 1j*randn(shape) of n entries: the values in C order, the
\* stream interval (lo, hi] they were taken from and the state left
ComplexNormal(st, n) == ComplexNormalAfter(st, Randn(st, n), n)

ComplexUniformAfter(st, re, n) == ComplexBoth(st.pos, re, Rand(re.rng, n))

\* rand(shape) + 1j*rand(shape) of n entries
ComplexUniform(st, n) == ComplexUniformAfter(st, Rand(st, n), n)

(***************************************************************************)
(* Run configuration (lines 48-63, 95, 108-114).  The script fixes one     *)
(* configuration; the properties range over configurations, so L, the      *)
(* estimator, sigma2 and the two lookup tables are chosen in Init.         *)
(***************************************************************************)
N == 8

p == 100

taup == 5

\* the numerator of ql = 200/L
DLpower == 200

squareLength == 400

MaxL == 4

MaxCollision == 2

MaxPair == 1

numsetups == 1

numchannel == 2

Estimators == {"est1", "est2", "est3"}

\* the script's noise power 1, the noiseless configuration, and a noise
\* power above the activity of the weaker APs
Sigma2Values == {R(0), R(1), R(50)}

DeltaValues == {R(1)}

\* collisions = np.arange(1, 11), cut to MaxCollision
collisions == [i \in 1..MaxCollision |-> i]

MaxCollisionSize == collisions[Len(collisions)]

Setups == 1..numsetups

Antennas == 1..N

Channels == 1..numchannel

VARIABLES
    pc,                \* position in the script
    L, estimator, sigma2, best_pair_lookup, delta_lookup,
    APpositions,       \* the AP grid
    rng,               \* state of the shared generator
    n_, eta,           \* noise at the APs and at the devices, drawn once
    cs,                \* index of the collision size being processed
    UElocations, channel_gains, Gnorm_, G_, Yt_, Yt_norms, atilde_t, Csize, Lmax,
    nmse_in, stored,   \* inner NMSE array and the entries assigned so far
    ss, ch, k,         \* loop indices
    Pcal, Vt_, alpha_true, z_k, Ccal_k, alphahat, gamma,
    nmse, saved,
    reads              \* per collision index, the random arrays it has read

config == <<L, estimator, sigma2, best_pair_lookup, delta_lookup>>

noise == <<n_, eta>>

batch == <<UElocations, channel_gains, Gnorm_, G_, Yt_, Yt_norms, atilde_t, Csize, Lmax>>

trial == <<Pcal, Vt_, alpha_true>>

device == <<z_k, Ccal_k, alphahat, gamma>>

vars == <<pc, config, APpositions, rng, noise, cs, batch, nmse_in, stored,
          ss, ch, k, trial, device, nmse, saved, reads>>

\* ql = 200/L (line 57)
Ql(l) == FDiv(R(DLpower), R(l))

ql == Ql(L)

collisionSize == collisions[cs]

APs == 1..L

(***************************************************************************)
(* Geometry (lines 98-101)                                                 *)
(***************************************************************************)
\* int(np.sqrt(L))
APperdim(l) == FInt(FSqrt(R(l)))

\* np.linspace(start, stop, num): arange(num)*step + start with the last
\* entry set to stop
LinspaceEntry(i, div, delta, step) ==
    IF div > 0
    THEN (IF IsZero(step) THEN FMul(FDiv(R(i), R(div)), delta) ELSE FMul(R(i), step))
    ELSE FMul(R(i), delta)

LinspaceBy(start, stop, num, delta, step) ==
    [i \in 1..num |-> IF num > 1 /\ i = num THEN stop
                      ELSE FAdd(LinspaceEntry(i - 1, num - 1, delta, step), start)]

LinspaceOver(start, stop, num, delta) ==
    LinspaceBy(start, stop, num, delta, FDiv(delta, R(num - 1)))

Linspace(start, stop, num) == LinspaceOver(start, stop, num, FSub(stop, start))

\* line - half, entry by entry
Shifted(line, half) == Array([i \in 1..Len(line) |-> FSub(line[i], half)])

\* linspace(cell, squareLength, perdim) - cell/2 (line 99)
GridLineOf(perdim, cell) ==
    Shifted(Array(Linspace(cell, R(squareLength), perdim)), FDiv(cell, R(2)))

GridLine(l) == GridLineOf(APperdim(l), FDiv(R(squareLength), R(APperdim(l))))

\* line + 1j*line[:, None], flattened row by row (line 100)
GridMatrixOf(line) ==
    Array([i \in 1..(Len(line) * Len(line)) |->
              CAdd(Cplx(line[((i - 1) % Len(line)) + 1]),
                   CMul(ImagUnit, Cplx(line[((i - 1) \div Len(line)) + 1])))])

GridMatrix(l) == GridMatrixOf(GridLine(l))

\* Variant of ReshapeFails: a reshape that accepts any size
ReshapeNeverFails(matrix, l) == FALSE

\* reshape(L) raises ValueError unless the matrix holds exactly L entries
ReshapeFails(matrix, l) == Len(matrix) # l

\* Lines 98-101.  APpositions is bound to the matrix before the reshape is
\* tried, and keeps it when the reshape fails.
BuildGrid ==
    /\ pc = "geometry"
    /\ APpositions' = GridMatrix(L)
    /\ pc' = IF ReshapeFails(APpositions', L) THEN "ValueError" ELSE "noise"
    /\ UNCHANGED <<config, rng, noise, cs, batch, nmse_in, stored, ss, ch, k,
                   trial, device, nmse, saved, reads>>

(***************************************************************************)
(* Noise (lines 132-142).  An array is indexed as in the script and takes  *)
(* the draws in C order; it remembers the stream interval it was filled    *)
(* from and the generator state after it.                                  *)
(***************************************************************************)
NoiseIndex == Setups \X Antennas \X APs \X Channels

DeviceNoiseIndex == Setups \X (1..MaxCollisionSize) \X Channels

ActivityIndex == Setups \X APs \X Channels

\* the C-order position of entry i of an array of shape (numsetups, N, L, numchannel)
NoisePos(i) == (((i[1] - 1) * N + (i[2] - 1)) * L + (i[3] - 1)) * numchannel + i[4]

\* the same for the shape (numsetups, max(collisions), numchannel)
DeviceNoisePos(i) == ((i[1] - 1) * MaxCollisionSize + (i[2] - 1)) * numchannel + i[3]

Block(from, to) == [lo |-> from, hi |-> to]

n_Size == numsetups * N * L * numchannel

etaSize == numsetups * MaxCollisionSize * numchannel

\* np.sqrt(sigma2/2) of lines 139 and 142
NoiseScale(s2) == FSqrt(FDiv(s2, R(2)))

\* scale*(randn + 1j*randn), entry by entry; pos gives the C-order position
\* of each entry
Noise(d, pos, scale) ==
    [val |-> Array([i \in DOMAIN pos |-> CMul(Cplx(scale), d.val[pos[i]])]),
     at |-> Block(d.lo, d.hi),
     rng |-> d.rng]

\* Lines 132-142: the statistics array is allocated, then the noise drawn
DrawNoise ==
    /\ pc = "noise"
    /\ nmse' = [c \in 1..Len(collisions) |-> <<R(0), R(0), R(0)>>]
    /\ n_' = Noise(ComplexNormal(rng, n_Size),
                   [i \in NoiseIndex |-> NoisePos(i)], NoiseScale(sigma2))
    /\ eta' = Noise(ComplexNormal(ComplexNormal(rng, n_Size).rng, etaSize),
                    [i \in DeviceNoiseIndex |-> DeviceNoisePos(i)], NoiseScale(sigma2))
    /\ rng' = eta'.rng
    /\ pc' = "collision"
    /\ UNCHANGED <<config, APpositions, cs, batch, nmse_in, stored, ss, ch, k,
                   trial, device, saved, reads>>

(***************************************************************************)
(* Index selection: np.argsort, the slice [-c:], np.delete, np.argmax      *)
(***************************************************************************)
\* np.argsort(x): the indices in ascending order of value.  The default sort
\* is not stable, so equal values may come out in any order.
RECURSIVE Ascending(_, _)
Ascending(x, S) ==
    IF S = {} THEN {<<>>}
    ELSE UNION {{<<i>> \o rest : rest \in Ascending(x, S \ {i})} :
                   i \in {i \in S : \A j \in S : ~FLt(x[j], x[i])}}

Argsorts(x) == Ascending(Array(x), 1..Len(x))

\* Variant of TailSlice that slices from the front, s[:c]
HeadSlice(s, c) == SubSeq(s, 1, Min(Max(c, 0), Len(s)))

\* s[-c:]: the last c entries when c > 0; from position -c on otherwise, so
\* s[-0:] is the whole array
TailSlice(s, c) ==
    LET n == Len(s)
        first == IF c > 0 THEN Max(n - c, 0) ELSE Min(-c, n)
    IN  SubSeq(s, first + 1, n)

\* np.delete(s, x[s] == 0)
DeleteZeros(s, x) == SelectSeq(s, LAMBDA i : ~FEq(x[i], R(0)))

\* np.argmax(x): the first index holding the maximum
Argmax(x) ==
    CHOOSE i \in 1..Len(x) :
        /\ \A j \in 1..Len(x) : ~FLt(x[i], x[j])
        /\ \A j \in 1..(i - 1) : FLt(x[j], x[i])

\* enumerationL[mask]: the indices where the mask holds, ascending
RECURSIVE Masked(_, _)
Masked(mask, n) ==
    IF n = 0 THEN <<>>
    ELSE IF mask[n] THEN Append(Masked(mask, n - 1), n) ELSE Masked(mask, n - 1)

Range(s) == {s[i] : i \in 1..Len(s)}

\* atilde_t[atilde_t < sigma2] = 0.0 (line 182)
Threshold(a, s2) == IF FLt(a, s2) THEN R(0) ELSE a

\* Pcal of one trial (lines 198-199), every outcome of the sort
ServingSets(activity, lmax) ==
    {DeleteZeros(TailSlice(perm, lmax), activity) : perm \in Argsorts(activity)}

\* ql*channel_gains of one device (line 232)
Power(gains, qlv) == Array([l \in 1..Len(gains) |-> FMul(qlv, gains[l])])

\* enumerationL[ql*channel_gains > sigma2] (line 235)
Natural(power, s2) == Masked([l \in 1..Len(power) |-> FLt(s2, power[l])], Len(power))

\* lines 237-238: the strongest AP when no AP is above the noise
CheckCcal_k(power, natural) == IF Len(natural) = 0 THEN <<Argmax(power)>> ELSE natural

\* lines 232 and 240-241: the sorted slice, or check when the slice is longer
NeighborSetsFrom(power, check, csize) ==
    {IF Len(TailSlice(perm, csize)) > Len(check)
        THEN check ELSE TailSlice(perm, csize) : perm \in Argsorts(power)}

\* Variant of NeighborSets without the fallback to the strongest AP
NeighborSetsNoFallback(gains, csize, qlv, s2) ==
    NeighborSetsFrom(Power(gains, qlv), Natural(Power(gains, qlv), s2), csize)

\* Ccal_k of one device (lines 232-241), every outcome of the sort
NeighborSets(gains, csize, qlv, s2) ==
    NeighborSetsFrom(Power(gains, qlv),
                     CheckCcal_k(Power(gains, qlv), Natural(Power(gains, qlv), s2)), csize)

(***************************************************************************)
(* Channel generation and uplink observation (lines 160-188)               *)
(***************************************************************************)
\* UEdistances of line 163: the modulus of the complex difference
Distance(u, a) == Hypot(FSub(u[1], a[1]), FSub(u[2], a[2]))

\* 36.7 of line 166
PathLossSlope == FDiv(R(367), R(10))

\* 94.0 - 30.5 of line 166
PathLossOffset == FSub(R(94), FDiv(R(61), R(2)))

\* channel_gains of line 166 at distance d
PathGain(d) ==
    Pow10(FDiv(FSub(PathLossOffset,
                    FMul(PathLossSlope, Log10(FSqrt(FAdd(FSq(d), R(10 * 10)))))),
               R(10)))

LocationIndex(c) == Setups \X (1..c)

GainIndex(c) == Setups \X (1..c) \X APs

FadingIndex(c) == Setups \X Antennas \X (1..c) \X APs \X Channels

\* the C-order position of entry i of an array of shape (numsetups, c)
LocationPos(i, c) == (i[1] - 1) * c + i[2]

\* the same for the shape (numsetups, N, c, L, numchannel)
FadingPos(i, c) ==
    ((((i[1] - 1) * N + (i[2] - 1)) * c + (i[3] - 1)) * L + (i[4] - 1)) * numchannel + i[5]

UElocationsSize(c) == numsetups * c

Gnorm_Size(c) == numsetups * N * c * L * numchannel

\* squareLength*(rand + 1j*rand), line 160
Locations(d, c) ==
    [val |-> Array([i \in LocationIndex(c) |->
                       CMul(Cplx(R(squareLength)), d.val[LocationPos(i, c)])]),
     at |-> Block(d.lo, d.hi),
     rng |-> d.rng]

\* np.sqrt(1/2) of line 169
SqrtHalf == FSqrt(FDiv(R(1), R(2)))

\* np.sqrt(1/2)*(randn + 1j*randn), line 169
Fading(d, c) ==
    [val |-> Array([i \in FadingIndex(c) |-> CMul(Cplx(SqrtHalf), d.val[FadingPos(i, c)])]),
     at |-> Block(d.lo, d.hi),
     rng |-> d.rng]

\* np.sqrt(channel_gains) of line 172
Amplitudes(gains) == Array([i \in DOMAIN gains |-> FSqrt(gains[i])])

\* the product of line 172, the amplitudes broadcast over antennas and
\* channel realizations
ChannelMatrix(amplitude, fading) ==
    Array([i \in DOMAIN fading |-> CMul(Cplx(amplitude[<<i[1], i[3], i[4]>>]), fading[i])])

\* G_ of line 172
Channel(gains, fading) == ChannelMatrix(Amplitudes(gains), fading)

\* np.sqrt(p * taup) of line 175
SqrtPTaup == FSqrt(R(p * taup))

\* Yt_ of line 175, one antenna coefficient of an AP; G holds the
\* coefficients of the devices
Received(G, napv) == CAdd(CMul(Cplx(SqrtPTaup), ComplexStridedSum(G)), napv)

\* (x.conj()*x).real
SquaredModulus(x) == CMulRe(CConj(x), x)

\* np.linalg.norm over the N antennas of an AP (line 178): the root of the
\* sum of (x.conj()*x).real; y holds the coefficients of the antennas
AntennaNorm(y) == FSqrt(StridedSum([n \in Antennas |-> SquaredModulus(y[n])]))

\* 1/N of line 181
InvN == FDiv(R(1), R(N))

\* lines 181-182
Activity(norm, s2) == Threshold(FMul(InvN, FSq(norm)), s2)

BestPairKey == <<collisionSize, N>>

BeginCollision ==
    /\ pc = "collision"
    /\ UElocations' = Locations(ComplexUniform(rng, UElocationsSize(collisionSize)),
                                collisionSize)
    /\ channel_gains' =
          Array([i \in GainIndex(collisionSize) |->
                   PathGain(Distance(UElocations'.val[<<i[1], i[2]>>], APpositions[i[3]]))])
    /\ Gnorm_' = Fading(ComplexNormal(ComplexUniform(rng, UElocationsSize(collisionSize)).rng,
                                      Gnorm_Size(collisionSize)),
                        collisionSize)
    /\ rng' = Gnorm_'.rng
    /\ G_' = Channel(channel_gains', Gnorm_'.val)
    /\ Yt_' = Array([i \in NoiseIndex |->
                        Received([d \in 1..collisionSize |-> G_'[<<i[1], i[2], d, i[3], i[4]>>]],
                                 n_.val[i])])
    /\ Yt_norms' = Array([i \in ActivityIndex |->
                             AntennaNorm([n \in Antennas |-> Yt_'[<<i[1], n, i[2], i[3]>>]])])
    /\ atilde_t' = Array([i \in ActivityIndex |-> Activity(Yt_norms'[i], sigma2)])
    /\ reads' = [reads EXCEPT ![cs] = @ \cup {UElocations'.at, Gnorm_'.at, n_.at}]
    /\ IF BestPairKey \in DOMAIN best_pair_lookup
       THEN /\ Csize' = best_pair_lookup[BestPairKey][1]
            /\ Lmax' = best_pair_lookup[BestPairKey][2]
            /\ nmse_in' = [i \in Setups \X (1..collisionSize) \X Channels |-> R(0)]
            /\ stored' = {}
            /\ ss' = 1
            /\ ch' = 1
            /\ pc' = "trial"
       ELSE /\ pc' = "KeyError"
            /\ UNCHANGED <<Csize, Lmax, nmse_in, stored, ss, ch>>
    /\ UNCHANGED <<config, APpositions, noise, cs, k, trial, device, nmse, saved>>

(***************************************************************************)
(* One trial: serving set, precoder, ground truth (lines 197-222)          *)
(***************************************************************************)
ActivityOf(s, h) == [l \in APs |-> atilde_t[<<s, l, h>>]]

\* den of line 210: the sum runs over all APs
Denominator(activity, s2) ==
    FSqrt(FMul(R(N), FSum([l \in 1..Len(activity) |-> FSub(activity[l], s2)])))

\* the divisor of each serving AP: den for est3 (line 213), the AP's own
\* norm otherwise (line 218)
Divisors(P, s, h, den) ==
    Array([i \in 1..Len(P) |-> IF estimator = "est3" THEN den ELSE Yt_norms[<<s, P[i], h>>]])

\* np.sqrt(ql) * (y / divisor), a complex product and a complex quotient
Precoded(y, divisor, scale) == CMul(Cplx(scale), CDiv(y, Cplx(divisor)))

\* Vt_ of lines 213 and 218: a row per antenna and a column per serving AP
PrecoderOver(P, s, h, divisors, scale) ==
    Array([i \in Antennas \X (1..Len(P)) |->
              Precoded(Yt_[<<s, i[1], P[i[2]], h>>], divisors[i[2]], scale)])

Precoder(P, s, h) ==
    PrecoderOver(P, s, h,
                 Divisors(P, s, h, IF estimator = "est3"
                                   THEN Denominator(ActivityOf(s, h), sigma2) ELSE NaN),
                 FSqrt(ql))

\* alpha_true of line 222: channel_gains[ss, :, Pcal] holds a row per serving
\* AP and a column per device
TrueTotalPower(P, s) ==
    FMul(R(p * taup),
         FSum([i \in 1..(Len(P) * collisionSize) |->
                 channel_gains[<<s, ((i - 1) % collisionSize) + 1,
                                 P[((i - 1) \div collisionSize) + 1]>>]]))

TrialStep ==
    /\ pc = "trial"
    /\ \E P \in ServingSets(ActivityOf(ss, ch), Lmax) :
          /\ Pcal' = P
          /\ Vt_' = Precoder(P, ss, ch)
          /\ alpha_true' = TrueTotalPower(P, ss)
    /\ k' = 1
    /\ pc' = "device"
    /\ UNCHANGED <<config, APpositions, rng, noise, cs, batch, nmse_in, stored,
                   ss, ch, device, nmse, saved, reads>>

(***************************************************************************)
(* One device of a trial: downlink observation, neighbor set, estimate,    *)
(* clamp and NMSE sample (lines 229-286)                                   *)
(***************************************************************************)
\* the products G_[ss][:, k, Pcal, ch].conj() * Vt_ as they lie in memory:
\* the N coefficients of the first serving AP, then those of the next
AntennaProducts(P, V, s, d, h) ==
    Array([j \in 1..(N * Len(P)) |->
              CMul(CConj(G_[<<s, ((j - 1) % N) + 1, d, P[((j - 1) \div N) + 1], h>>]),
                   V[<<((j - 1) % N) + 1, ((j - 1) \div N) + 1>>])])

\* np.sqrt(taup) of line 229
SqrtTaup == FSqrt(R(taup))

\* z_k of line 229
Observation(P, V, s, d, h) ==
    CAdd(CMul(Cplx(SqrtTaup), ComplexSum(AntennaProducts(P, V, s, d, h))),
         eta.val[<<s, d, h>>])

GainsOf(s, d) == [l \in APs |-> channel_gains[<<s, d, l>>]]

\* num of line 251
Contribution(g, C, qlv) ==
    [i \in 1..Len(C) |-> FMul(FMul(FSqrt(FMul(qlv, R(p))), R(taup)), g[C[i]])]

\* np.sqrt(N) of lines 250 and 273
SqrtN == FSqrt(R(N))

\* cte of line 250, z the real part of z_k
Cte(z) == FDiv(z, SqrtN)

\* Eq. (28), line 257
Est1(num, z, s2) == FSub(FPow2(FDiv(FSum(num), Cte(z))), s2)

\* Eq. (32), lines 261-265
Est2Terms(num23, cte2, s2) ==
    FSum([i \in 1..Len(num23) |-> FSub(FMul(cte2, num23[i]), s2)])

Est2Of(num23, z, s2) == Est2Terms(num23, FPow2(FDiv(FSum(num23), Cte(z))), s2)

Est2(num, z, s2) == Est2Of(Array([i \in 1..Len(num) |-> FPow23(num[i])]), z, s2)

\* Eqs. (38) and (40), lines 273-276
Est3(num, z, s2, delta) ==
    LET underline_cte == FDiv(FMul(delta, FSub(z, s2)), SqrtN)
    IN  FPow2(FDiv(FSum(num), underline_cte))

DeltaKey == <<collisionSize, N, Lmax>>

Estimate(num, z) ==
    IF estimator = "est1" THEN Est1(num, z, sigma2)
    ELSE IF estimator = "est2" THEN Est2(num, z, sigma2)
    ELSE Est3(num, z, sigma2, delta_lookup[DeltaKey])

\* gamma of line 279
OwnPower(g, C) == FMul(R(p * taup), FSum([i \in 1..Len(C) |-> g[C[i]]]))

\* lines 282-283
Clamp(a, floor) == IF FLt(a, floor) THEN floor ELSE a

\* alphahat of lines 249-283 for the observation z, the gains g of the
\* device and its neighbor set C
Estimated(z, g, C) == Clamp(Estimate(Contribution(g, C, ql), z[1]), OwnPower(g, C))

\* Variant of NmseSample that guards the division by a zero ground truth
NmseSampleGuarded(a, truth) ==
    IF IsZero(truth) THEN R(0) ELSE FDiv(FPow2(FAbs(FSub(a, truth))), FPow2(truth))

\* line 286
NmseSample(a, truth) == FDiv(FPow2(FAbs(FSub(a, truth))), FPow2(truth))

DeviceStep ==
    /\ pc = "device"
    /\ z_k' = Observation(Pcal, Vt_, ss, k, ch)
    /\ reads' = [reads EXCEPT ![cs] = @ \cup {eta.at}]
    /\ \E C \in NeighborSets(GainsOf(ss, k), Csize, ql, sigma2) :
          /\ Ccal_k' = C
          /\ IF estimator = "est3" /\ DeltaKey \notin DOMAIN delta_lookup
             THEN /\ pc' = "KeyError"
                  /\ UNCHANGED <<alphahat, gamma, nmse_in, stored, ss, ch, k>>
             ELSE /\ gamma' = OwnPower(GainsOf(ss, k), C)
                  /\ alphahat' = Estimated(Observation(Pcal, Vt_, ss, k, ch),
                                           GainsOf(ss, k), C)
                  /\ nmse_in' = [nmse_in EXCEPT
                                    ![<<ss, k, ch>>] = NmseSample(alphahat', alpha_true)]
                  /\ stored' = stored \cup {<<ss, k, ch>>}
                  /\ IF k < collisionSize
                     THEN /\ k' = k + 1
                          /\ pc' = "device"
                          /\ UNCHANGED <<ss, ch>>
                     ELSE IF ch < numchannel
                     THEN /\ ch' = ch + 1
                          /\ pc' = "trial"
                          /\ UNCHANGED <<ss, k>>
                     ELSE IF ss < numsetups
                     THEN /\ ss' = ss + 1
                          /\ ch' = 1
                          /\ pc' = "trial"
                          /\ UNCHANGED k
                     ELSE /\ pc' = "reduce"
                          /\ UNCHANGED <<ss, ch, k>>
    /\ UNCHANGED <<config, APpositions, rng, noise, cs, batch, trial, nmse, saved>>

(***************************************************************************)
(* Reduction of a collision size and the saved artifact (lines 289-302)    *)
(***************************************************************************)
NaNLastLe(x, y) == IsNaN(y) \/ (~IsNaN(x) /\ ~FLt(y, x))

RECURSIVE Insert(_, _)
Insert(x, s) ==
    IF s = <<>> THEN <<x>>
    ELSE IF NaNLastLe(x, Head(s)) THEN <<x>> \o s
    ELSE <<Head(s)>> \o Insert(x, Tail(s))

RECURSIVE Sorted(_)
Sorted(s) == IF s = <<>> THEN <<>> ELSE Insert(Head(s), Sorted(Tail(s)))

HasNaN(s) == \E i \in 1..Len(s) : IsNaN(s[i])

\* np.mean of a contiguous array
Mean(a) == FDiv(FSum(a), R(Len(a)))

\* numpy's linear interpolation a + (b - a)*t, taken from b when t >= 0.5
Lerp(a, b, t) ==
    IF FLe(FDiv(R(1), R(2)), t) THEN FSub(b, FMul(FSub(b, a), FSub(R(1), t)))
    ELSE FAdd(a, FMul(FSub(b, a), t))

\* np.percentile(a, q) of the flattened array: the entries around the
\* virtual index (n - 1)*(q/100) of the sorted array, both the last entry
\* when that index is n - 1 or more
\* srt[i] for a Python index i, negative from the end
At(srt, i) == srt[IF i < 0 THEN Len(srt) + 1 + i ELSE i + 1]

PercentileBetween(srt, virtual, previous, next) ==
    Lerp(At(srt, previous), At(srt, next), FSub(virtual, R(previous)))

PercentileAround(srt, virtual, previous) ==
    PercentileBetween(srt, virtual, previous, IF previous < 0 THEN -1 ELSE previous + 1)

PercentileAt(srt, virtual) ==
    PercentileAround(srt, virtual,
                     IF FLe(R(Len(srt) - 1), virtual) THEN -1 ELSE FInt(virtual))

Percentile(a, q) ==
    IF HasNaN(a) THEN NaN
    ELSE PercentileAt(Sorted(Array(a)), FMul(R(Len(a) - 1), FDiv(R(q), R(100))))

MedianOf(srt, n) ==
    IF n % 2 = 1 THEN Mean(<<srt[(n + 1) \div 2]>>)
    ELSE Mean(<<srt[n \div 2], srt[(n \div 2) + 1]>>)

\* np.median(a) of the flattened array: the mean of the middle entries
Median(a) == IF HasNaN(a) THEN NaN ELSE MedianOf(Sorted(Array(a)), Len(a))

\* nmse_in.mean(axis=-1)
ChannelMean(a, c) ==
    Array([i \in Setups \X (1..c) |-> Mean([h \in Channels |-> a[<<i[1], i[2], h>>]])])

Flatten(m, c) ==
    [i \in 1..(numsetups * c) |-> m[<<((i - 1) \div c) + 1, ((i - 1) % c) + 1>>]]

Stats(a) == <<Percentile(a, 25), Median(a), Percentile(a, 75)>>

\* Variant of Reduce that assigns the triple to every column, nmse[:, :]
ReduceEveryColumn ==
    /\ pc = "reduce"
    /\ nmse_in' = ChannelMean(nmse_in, collisionSize)
    /\ nmse' = [c \in 1..Len(collisions) |-> Stats(Flatten(nmse_in', collisionSize))]
    /\ IF cs < Len(collisions)
       THEN /\ cs' = cs + 1
            /\ pc' = "collision"
       ELSE /\ pc' = "save"
            /\ UNCHANGED cs
    /\ UNCHANGED <<config, APpositions, rng, noise, batch, stored, ss, ch, k,
                   trial, device, saved, reads>>

Reduce ==
    /\ pc = "reduce"
    /\ nmse_in' = ChannelMean(nmse_in, collisionSize)
    /\ nmse' = [nmse EXCEPT ![cs] = Stats(Flatten(nmse_in', collisionSize))]
    /\ IF cs < Len(collisions)
       THEN /\ cs' = cs + 1
            /\ pc' = "collision"
       ELSE /\ pc' = "save"
            /\ UNCHANGED cs
    /\ UNCHANGED <<config, APpositions, rng, noise, batch, stored, ss, ch, k,
                   trial, device, saved, reads>>

Save ==
    /\ pc = "save"
    /\ saved' = TRUE
    /\ pc' = "done"
    /\ UNCHANGED <<config, APpositions, rng, noise, cs, batch, nmse_in, stored,
                   ss, ch, k, trial, device, nmse, reads>>

(***************************************************************************)
(* The run                                                                 *)
(***************************************************************************)
\* the (Csize, Lmax) pairs of a table, 0 included
PairValues == (0..MaxPair) \X (0..MaxPair)

\* best_pair_lookup: (collisionSize, N) -> (Csize, Lmax).  The table of the
\* file holds every collision size; a table that lacks some holds the
\* smallest pair for the others.
BestPairTables ==
    {[key \in {<<c, N>> : c \in Range(collisions)} |-> pr] : pr \in PairValues}
    \cup {[key \in {<<c, N>> : c \in D} |-> <<1, 1>>] : D \in SUBSET Range(collisions)}

\* delta_lookup: (collisionSize, N, Lmax) -> delta, on any set of collision sizes
DeltaTables ==
    {[key \in {<<c, N, l>> : c \in D, l \in 0..MaxPair} |-> dv] :
        D \in SUBSET Range(collisions), dv \in DeltaValues}

NoBlock == Block(0, 0)

NoDraw == [val |-> <<>>, at |-> NoBlock, rng |-> Seeded]

Unset ==
    /\ APpositions = <<>>
    /\ rng = Seeded
    /\ n_ = NoDraw
    /\ eta = NoDraw
    /\ cs = 1
    /\ UElocations = NoDraw
    /\ Gnorm_ = NoDraw
    /\ G_ = <<>>
    /\ Yt_ = <<>>
    /\ Yt_norms = <<>>
    /\ nmse_in = <<>>
    /\ stored = {}
    /\ ss = 1
    /\ ch = 1
    /\ k = 1
    /\ Pcal = <<>>
    /\ Vt_ = <<>>
    /\ alpha_true = R(0)
    /\ z_k = Cplx(R(0))
    /\ Ccal_k = <<>>
    /\ alphahat = R(0)
    /\ gamma = R(0)
    /\ nmse = <<>>
    /\ saved = FALSE
    /\ reads = [c \in 1..Len(collisions) |-> {}]

Init ==
    /\ pc = "geometry"
    /\ L \in 1..MaxL
    /\ estimator \in Estimators
    /\ sigma2 \in Sigma2Values
    /\ best_pair_lookup \in BestPairTables
    /\ delta_lookup \in (IF estimator = "est3" THEN DeltaTables ELSE {<<>>})
    /\ channel_gains = <<>>
    /\ atilde_t = <<>>
    /\ Csize = 0
    /\ Lmax = 0
    /\ Unset

Next ==
    \/ BuildGrid
    \/ DrawNoise
    \/ BeginCollision
    \/ TrialStep
    \/ DeviceStep
    \/ Reduce
    \/ Save

Spec == Init /\ [][Next]_vars

(***************************************************************************)
(* Properties of the run, checked under Spec                               *)
(***************************************************************************)
IsSquare(n) == \E r \in 0..n : r * r = n

Distinct(s) == \A i, j \in 1..Len(s) : i # j => s[i] # s[j]

\* the samples of the collision size in progress
AllSamples == Setups \X (1..collisionSize) \X Channels

\* every AP's thresholded activity is zero in trial (s, h)
AllZero(s, h) == \A l \in APs : IsZero(atilde_t[<<s, l, h>>])

\* column c of the statistics array has been assigned
Written(c) == c < cs \/ pc \in {"save", "done"}

\* the statistics array has been allocated (line 132)
Allocated == nmse # <<>>

\* C1: for every estimator, the alphahat that enters an NMSE sample is
\* greater than or equal to gamma, also when the estimator formula yields
\* a non-finite value.
C1_ClampInvariant == stored # {} => FLe(gamma, alphahat)

\* C4: when a lookup key is missing, the run aborts before any trial is
\* computed: no collision size has been processed, no column of the
\* statistics array is written, and the artifact is not saved.
C4_AbortBeforeAnyTrial ==
    pc = "KeyError" =>
        /\ cs = 1
        /\ stored = {}
        /\ \A c \in 1..Len(collisions) : nmse[c] = <<R(0), R(0), R(0)>>
        /\ ~saved

\* C7: no random draw is shared between two collision sizes: the arrays read
\* while processing one collision size are read by no other.
C7_NoSharedDraw ==
    \A c1, c2 \in 1..Len(collisions) : c1 # c2 => reads[c1] \cap reads[c2] = {}

\* C8: for every L that is not a perfect square the run aborts while
\* building the AP grid, before any noise or channel is drawn and before
\* any trial; for every perfect-square L the grid has exactly L positions
\* and the run goes on to draw the noise.
C8_GridOrAbort ==
    /\ pc = "ValueError" =>
          /\ ~IsSquare(L)
          /\ rng = Seeded
          /\ Len(APpositions) # L
          /\ n_.val = <<>> /\ eta.val = <<>> /\ channel_gains = <<>>
          /\ stored = {}
          /\ ~saved
    /\ ~IsSquare(L) => pc \in {"geometry", "ValueError"}
    /\ (IsSquare(L) /\ pc # "geometry") =>
          /\ pc # "ValueError"
          /\ Len(APpositions) = L
          /\ Distinct(APpositions)

\* a run aborted at the grid, L = 3
C8_Witness == pc = "ValueError" /\ L = 3 /\ Len(APpositions) = 1 /\ rng = Seeded

\* C5: in a trial where every AP's thresholded activity is zero, Pcal is
\* empty and alpha_true is 0; no estimator aborts on it; every device's NMSE
\* sample of the trial is non-finite and is stored as it is; the mean over
\* channel draws that holds it is non-finite and is part of the array the
\* percentiles of the collision size are taken of.
C5_EmptyServingSet ==
    /\ [][(pc = "trial" /\ AllZero(ss, ch)) =>
             (pc' = "device" /\ Pcal' = <<>> /\ IsZero(alpha_true'))]_vars
    /\ [][(/\ pc = "device"
           /\ AllZero(ss, ch)
           /\ (estimator = "est3" => DeltaKey \in DOMAIN delta_lookup)) =>
             /\ pc' \in {"device", "trial", "reduce"}
             /\ stored' = stored \cup {<<ss, k, ch>>}
             /\ ~IsFinite(nmse_in'[<<ss, k, ch>>])]_vars
    /\ [](pc \in {"trial", "device", "reduce"} =>
             \A e \in stored : AllZero(e[1], e[3]) => ~IsFinite(nmse_in[e]))
    /\ [][pc = "reduce" =>
             /\ \A e \in stored : ~IsFinite(nmse_in[e]) => ~IsFinite(nmse_in'[<<e[1], e[2]>>])
             /\ nmse'[cs] = Stats(Flatten(nmse_in', collisionSize))]_vars

\* est3 has reduced a collision size whose first trial had no active AP:
\* the mean and the statistics that hold its sample are not finite
C5_Witness ==
    /\ pc = "collision"
    /\ cs = 2
    /\ estimator = "est3"
    /\ AllZero(1, 1)
    /\ ~IsFinite(nmse_in[<<1, 1>>])
    /\ \A i \in 1..3 : ~IsFinite(nmse[1][i])

\* 2^-40: the NMSE of an estimate within a millionth of the ground truth
NmseTolerance == Dbl(<<1>>, -40)

\* C6: with collisionSize = 1 and zero noise, for every device position,
\* every (Csize, Lmax) and each of the three estimators, the clamped
\* alphahat equals alpha_true, so that every NMSE sample is 0, here up to
\* the tolerance 2^-40.
C6_NoiselessSingleDevice ==
    (pc \in {"trial", "device", "reduce"} /\ collisionSize = 1 /\ sigma2 = R(0)) =>
        \A e \in stored : FLe(nmse_in[e], NmseTolerance)

\* C9: a column of the statistics array is assigned once, by the reduction
\* of its own collision size, after all numsetups x collisionSize x
\* numchannel samples are stored, from their means over the channel draws;
\* the reduction of collision size index cs leaves every other column
\* unchanged; the artifact is saved only after every column is assigned.
C9_AggregationOrder ==
    /\ [](Allocated =>
             \A c \in 1..Len(collisions) : ~Written(c) => nmse[c] = <<R(0), R(0), R(0)>>)
    /\ [](saved => \A c \in 1..Len(collisions) : Written(c))
    /\ [][Allocated => \A c \in 1..Len(collisions) :
             /\ nmse'[c] # nmse[c] => (pc = "reduce" /\ c = cs)
             /\ Written(c) => (Written(c)' /\ nmse'[c] = nmse[c])
             /\ (~Written(c) /\ Written(c)') =>
                   /\ pc = "reduce"
                   /\ c = cs
                   /\ stored = AllSamples
                   /\ nmse'[c] = Stats(Flatten(ChannelMean(nmse_in, collisions[c]),
                                               collisions[c]))]_vars
    /\ [][saved' # saved => (pc = "save" /\ cs = Len(collisions))]_vars

\* a run that has saved its artifact
C9_Witness ==
    /\ saved
    /\ pc = "done"
    /\ L = 4
    /\ \A c \in 1..Len(collisions) : Written(c)

(***************************************************************************)
(* The two selections on their own.  The serving set is selected (lines    *)
(* 198-199) from any thresholded activity vector and any Lmax, the         *)
(* neighbor set (lines 232-241) from any gain vector and any Csize, the    *)
(* sizes running from the least the slice accepts to beyond L.             *)
(***************************************************************************)
ActivityLevels == {R(0), R(1), R(2)}

\* the gains of line 166 at the distances 100, 223.6 and 300
GainLevels == {PathGain(d) : d \in {R(100), Hypot(R(100), R(200)), R(300)}}

SelectPcal ==
    /\ pc = "serve"
    /\ Pcal' \in ServingSets(ActivityOf(ss, ch), Lmax)
    /\ pc' = "served"
    /\ UNCHANGED <<config, APpositions, rng, noise, cs, batch, nmse_in, stored,
                   ss, ch, k, Vt_, alpha_true, device, nmse, saved, reads>>

SelectCcal_k ==
    /\ pc = "neighbors"
    /\ Ccal_k' \in NeighborSets(GainsOf(ss, k), Csize, ql, sigma2)
    /\ pc' = "chosen"
    /\ UNCHANGED <<config, APpositions, rng, noise, cs, batch, nmse_in, stored,
                   ss, ch, k, trial, z_k, alphahat, gamma, nmse, saved, reads>>

InitSelect ==
    /\ L \in 1..MaxL
    /\ estimator = "est1"
    /\ sigma2 \in Sigma2Values
    /\ best_pair_lookup = <<>>
    /\ delta_lookup = <<>>
    /\ \/ /\ pc = "serve"
          /\ Lmax \in 0..(L + 1)
          /\ \E a \in [APs -> ActivityLevels] : atilde_t = [i \in ActivityIndex |-> a[i[2]]]
          /\ Csize = 0
          /\ channel_gains = <<>>
       \/ /\ pc = "neighbors"
          /\ Csize \in 0..(L + 1)
          /\ \E g \in [APs -> GainLevels] :
                channel_gains = [i \in GainIndex(1) |-> g[i[3]]]
          /\ Lmax = 0
          /\ atilde_t = <<>>
    /\ Unset

NextSelect ==
    \/ SelectPcal
    \/ SelectCcal_k

SpecSelect == InitSelect /\ [][NextSelect]_vars

(***************************************************************************)
(* Properties of the selections, checked under SpecSelect                  *)
(***************************************************************************)
\* the APs of nonzero thresholded activity in the current trial
NonzeroAPs == {l \in APs : ~IsZero(atilde_t[<<ss, l, ch>>])}

\* the natural neighbor set of the current device
NaturalAPs == {l \in APs : FLt(sigma2, FMul(ql, channel_gains[<<ss, k, l>>]))}

NaturalSize == Max(1, Cardinality(NaturalAPs))

\* C3: the serving set Pcal of a trial holds no AP whose thresholded
\* activity is zero, has at most Lmax members, and every member's activity
\* is at least every non-member's nonzero activity; when fewer than Lmax
\* APs have nonzero activity, Pcal is exactly those APs.
C3_ServingSet ==
    pc = "served" =>
        /\ Distinct(Pcal)
        /\ Range(Pcal) \subseteq NonzeroAPs
        /\ Len(Pcal) <= Lmax
        /\ \A m \in Range(Pcal), o \in NonzeroAPs \ Range(Pcal) :
              ~FLt(atilde_t[<<ss, m, ch>>], atilde_t[<<ss, o, ch>>])
        /\ (Cardinality(NonzeroAPs) < Lmax => Range(Pcal) = NonzeroAPs)

\* C2, as amended: the neighbor set Ccal_k is never empty, also when no AP
\* passes the natural threshold; it has at most Csize members whenever
\* Csize >= 1, also for Csize > L; for Csize = 0 the slice [-0:] keeps every
\* AP and the set has max(1, size of the natural set) members.
C2_NeighborSetSize ==
    pc = "chosen" =>
        /\ Len(Ccal_k) >= 1
        /\ (Csize >= 1 => Len(Ccal_k) <= Csize)
        /\ (Csize = 0 => Len(Ccal_k) = NaturalSize)

\* Csize = 0 and every AP in the natural set: Ccal_k holds all the APs
C2_Witness ==
    /\ pc = "chosen"
    /\ Csize = 0
    /\ L > 1
    /\ Len(Ccal_k) = L

\* C2, as stated: Ccal_k has at least 1 and at most Csize members for every
\* Csize, Csize = 0 and Csize > L included
C2_AsStated == pc = "chosen" => (1 <= Len(Ccal_k) /\ Len(Ccal_k) <= Csize)

\* C10: for 1 <= Csize <= L, Ccal_k has exactly
\* min(Csize, max(1, size of the natural set)) members, and every member's
\* gain is at least every non-member's gain, ties included.
C10_TopRanked ==
    (pc = "chosen" /\ 1 <= Csize /\ Csize <= L) =>
        /\ Distinct(Ccal_k)
        /\ Range(Ccal_k) \subseteq APs
        /\ Len(Ccal_k) = Min(Csize, NaturalSize)
        /\ \A m \in Range(Ccal_k), o \in APs \ Range(Ccal_k) :
              ~FLt(channel_gains[<<ss, k, m>>], channel_gains[<<ss, k, o>>])

\* the natural set replaces a larger candidate set, and a member's gain is
\* tied with another member's
C10_Witness ==
    /\ pc = "chosen"
    /\ Csize = 3
    /\ L = 4
    /\ Len(Ccal_k) = 2
    /\ channel_gains[<<ss, k, Ccal_k[1]>>] = channel_gains[<<ss, k, Ccal_k[2]>>]

====
